---- MODULE Spec2Model ----
(***************************************************************************)
(* Model of the offline-first generation store of NexusAI:                 *)
(*   - IndexedDBManager (src/lib/storage/indexdb.ts): the local record     *)
(*     store, its lazy shared initialization and its operations;           *)
(*   - useIndexDB / useAutoSync (src/hooks/use-pro-modal.tsx): the hook    *)
(*     that initializes the store and the timer-driven sync passes.        *)
(* JavaScript runs one task at a time: every action below is the code that *)
(* runs between two suspension points (await).                             *)
(***************************************************************************)
EXTENDS Integers, Sequences, FiniteSets, TLC

VARIABLES
    db,             \* IndexedDBManager.db is non-null (the database is open)
    initPromise,    \* IndexedDBManager.initPromise: "null", "pending", "resolved", "rejected"
    openCount,      \* number of openDB(...) calls made so far
    waiting,        \* continuations queued behind initPromise or `await this.initialize()`, in order
    store,          \* object store 'generations': primary key -> record
    saveCount,      \* number of saveGeneration calls accepted so far
    now,            \* the clock read by new Date() / Date.now()
    ret,            \* outcome of the call that completed last
    engineBoolKeys, \* whether the storage engine accepts a boolean as an index key
    rmw,            \* read-modify-write calls suspended between their read and their write
    user,           \* useUser().user: "none" or a user id
    hookInit,       \* init effect of useIndexDB: "idle", "awaiting", "ready"
    isActive,       \* useAutoSync effect closure's isActive flag
    initialSync,    \* the setTimeout of useAutoSync: "none", "armed", "fired"
    intervalArmed,  \* the setInterval of useAutoSync is set
    passes,         \* executions of syncToServer's mutationFn
    subscription,   \* useSubscription: data of the ['subscription'] query, or Null
    plans,          \* useSubscription: data of the ['plans'] query, or Null
    usage,          \* useSubscriptionUsage: data of the ['subscription-usage'] query, or Null
    serverTables,   \* lib/db: the rows of the server's generation tables
    serverCalls     \* lib/db: calls between the user lookup and their statement

vars == <<db, initPromise, openCount, waiting, store, saveCount, now, ret,
          engineBoolKeys, rmw, user, hookInit, isActive, initialSync,
          intervalArmed, passes, subscription, plans, usage, serverTables,
          serverCalls>>

subVars == <<subscription, plans, usage>>
managerVars == <<db, initPromise, openCount, waiting, store, saveCount, ret, rmw>>
hookVars == <<user, isActive, initialSync, intervalArmed, passes>>
serverVars == <<serverTables, serverCalls>>

----------------------------------------------------------------------------
(* Bounds of the model *)

MaxRecords == 1     \* records saved by direct callers of the store
MaxSyncRecords == 2 \* records saved through the hook
MaxClock == 1       \* the clock runs 0..MaxClock
MaxWaiters == 2     \* calls that can be suspended on the pending initialization
MaxInflight == 1    \* read-modify-write calls between read and write
MaxAttempts == 1    \* cap on syncAttempts
MaxPasses == 2      \* sync passes that can be in flight together
MaxQueryRecords == 2 \* records in the stores that queries are run on
MaxLimit == 2        \* finite plan limits are 0..MaxLimit
MaxUsage == 3        \* usage counts are 0..MaxUsage
MaxToggles == 2      \* toggleFavorite calls between read and write
MaxBacklog == 3      \* unsynced records waiting when the coordinator starts

(* The clock counts in days: olderThanDays * 24 * 60 * 60 * 1000 ms is     *)
(* olderThanDays * DayTicks ticks.                                         *)
DayTicks == 1

(* saveGeneration: id = `gen_${Date.now()}_${Math.random()...}`.  Ids are   *)
(* compared as strings: by the time, then by the suffix.  An id is kept as *)
(* the integer that has the same order.                                    *)
(* Two values of the random suffix: a lower and a higher one *)
Suffixes == {1, 2}

GenerationId(t, suffix) == t * Cardinality(Suffixes) + suffix

TimeOf(id) == (id - 1) \div Cardinality(Suffixes)

(* The ids callers pass: those of the records saved at time 0 *)
Ids == {GenerationId(0, suffix) : suffix \in Suffixes}
Users == {"u1", "u2"}
Slots == 1..(MaxInflight + MaxToggles)
PassSlots == 1..MaxPasses

Null == [null |-> TRUE]
Idle == [idle |-> TRUE]
EmptyStore == [i \in {} |-> Null]

----------------------------------------------------------------------------
(* The object store: put / get / delete keyed by keyPath 'id' *)

Put(st, rec) == (rec.id :> rec) @@ st

Remove(st, S) == [i \in (DOMAIN st) \ S |-> st[i]]

Field(rec, f, default) == IF f \in DOMAIN rec THEN rec[f] ELSE default

\* a set of integers as the ascending sequence an index scan returns
Ascending(S) ==
    CHOOSE s \in [1..Cardinality(S) -> S] :
        \A i, j \in 1..Cardinality(S) : i < j => s[i] < s[j]

----------------------------------------------------------------------------
(* saveGeneration builds the stored record: the caller's data, then the    *)
(* fields the store sets itself.                                           *)

SaveRecord_DataLast(data, id, t) ==
    data @@ [id |-> id, createdAt |-> t, updatedAt |-> t, synced |-> FALSE,
             syncAttempts |-> 0, favorite |-> FALSE,
             tags |-> Field(data, "tags", << >>)]

SaveRecord(data, id, t) ==
    [id |-> id, createdAt |-> t, updatedAt |-> t, synced |-> FALSE,
     syncAttempts |-> 0, favorite |-> FALSE,
     tags |-> Field(data, "tags", << >>)] @@ data

UpdateRecord_StampsCreatedAt(existing, updates, t) ==
    [updatedAt |-> t, createdAt |-> t] @@ updates @@ existing

(* updateGeneration: { ...existing, ...updates, updatedAt: new Date() } *)
UpdateRecord(existing, updates, t) ==
    [updatedAt |-> t] @@ updates @@ existing

UpdatedStore(st, id, updates, t) == Put(st, UpdateRecord(st[id], updates, t))

GetGenerationById(st, id) == IF id \in DOMAIN st THEN st[id] ELSE Null

(* index 'synced' .getAll(false): the records whose synced is false, in    *)
(* primary-key order.                                                      *)
GetUnsyncedGenerations(st) ==
    Ascending({i \in DOMAIN st : "synced" \in DOMAIN st[i] /\ st[i].synced = FALSE})

MarkAsSyncedUpdates(t) == [synced |-> TRUE, lastSyncAttempt |-> t]

MarkSyncFailedUpdates(syncAttempts, t) ==
    [syncAttempts |-> syncAttempts + 1, lastSyncAttempt |-> t]

(* importData: store.put(item) for each item in turn; a later item with    *)
(* the same id replaces an earlier one.                                    *)
RECURSIVE ImportedStore(_, _)
ImportedStore(st, data) ==
    IF data = << >> THEN st
    ELSE ImportedStore(Put(st, Head(data)), Tail(data))

(* getGenerations(userId, options).  A record whose dates are not Date     *)
(* objects (dateType "string": it came back from JSON) or that lacks the   *)
(* sort field makes the comparator return NaN, which sort takes as 0.      *)
DefaultLimit == 100

IsTime(rec, f) == f \in DOMAIN rec /\ Field(rec, "dateType", "Date") = "Date"

Compare(a, b, sortBy, sortOrder) ==
    IF ~IsTime(a, sortBy) \/ ~IsTime(b, sortBy) THEN 0
    ELSE IF sortOrder = "desc" THEN b[sortBy] - a[sortBy]
    ELSE a[sortBy] - b[sortBy]

(* Array.prototype.sort with a consistent comparator is stable: an element *)
(* goes after every element that does not compare greater than it.         *)
RECURSIVE Sorted(_, _, _)
Sorted(rows, sortBy, sortOrder) ==
    IF rows = << >> THEN << >>
    ELSE LET front == Sorted(SubSeq(rows, 1, Len(rows) - 1), sortBy, sortOrder)
             x == rows[Len(rows)]
             after == {k \in 1..Len(front) :
                         Compare(front[k], x, sortBy, sortOrder) > 0}
             pos == IF after = {} THEN Len(front) + 1
                    ELSE CHOOSE k \in after : \A j \in after : k <= j
         IN  SubSeq(front, 1, pos - 1) \o <<x>> \o SubSeq(front, pos, Len(front))

(* The comparator is consistent unless a row without a time, which         *)
(* compares equal to every row, stands among rows of different times.      *)
Consistent(rows, sortBy) ==
    \/ \A k \in 1..Len(rows) : IsTime(rows[k], sortBy)
    \/ \A j, k \in 1..Len(rows) :
          (IsTime(rows[j], sortBy) /\ IsTime(rows[k], sortBy))
              => rows[j][sortBy] = rows[k][sortBy]

Orderings(rows) ==
    { [k \in 1..Len(rows) |-> rows[f[k]]] :
        f \in {g \in [1..Len(rows) -> 1..Len(rows)] :
                  \A j, k \in 1..Len(rows) : g[j] = g[k] => j = k} }

(* results.sort(...): with an inconsistent comparator the order is         *)
(* implementation-defined.                                                 *)
SortOutcomes(rows, sortBy, sortOrder) ==
    IF Consistent(rows, sortBy) THEN { Sorted(rows, sortBy, sortOrder) }
    ELSE Orderings(rows)

(* index('userId').getAll(userId), or index('userId-type').getAll([userId, *)
(* type]) when a type is given: the matching records in primary-key order. *)
IndexGetAll(st, userId, type) ==
    LET ids == Ascending({i \in DOMAIN st :
                   /\ st[i].userId = userId
                   /\ type # "" => st[i].type = type})
    IN  [k \in 1..Len(ids) |-> st[ids[k]]]

(* results.slice(offset, offset + limit) *)
Page(rows, offset, limit) ==
    SubSeq(rows, offset + 1,
           IF offset + limit < Len(rows) THEN offset + limit ELSE Len(rows))

QueryOutcomes(st, userId, options) ==
    LET all == IndexGetAll(st, userId, Field(options, "type", ""))
        bySync == IF "syncedOnly" \in DOMAIN options
                  THEN SelectSeq(all, LAMBDA r : r.synced = options.syncedOnly)
                  ELSE all
        byFav == IF Field(options, "favoritesOnly", FALSE)
                 THEN SelectSeq(bySync, LAMBDA r : Field(r, "favorite", FALSE) = TRUE)
                 ELSE bySync
    IN  { Page(sorted, Field(options, "offset", 0),
               Field(options, "limit", DefaultLimit)) :
            sorted \in SortOutcomes(byFav, Field(options, "sortBy", "createdAt"),
                                    Field(options, "sortOrder", "desc")) }

(* exportData: JSON.stringify(await getGenerations(userId, {limit: 10000})) *)
(* JSON.stringify writes a Date as its ISO string; JSON.parse, called      *)
(* without a reviver, gives the string back.  A JSON object is modelled as *)
(* the record with its dateType set to "string".                           *)
ExportLimit == 10000

ToJSON(rec) == [dateType |-> "string"] @@ rec

JsonStringify(rows) == [text |-> [k \in 1..Len(rows) |-> ToJSON(rows[k])]]

JsonParse(json) == json.text

(* deleteGenerations: one readwrite transaction;                           *)
(* Promise.all(ids.map(id => store.delete(id))) issues the requests in     *)
(* list order, and store.delete throws on the first key that is not valid, *)
(* which ends the map: the requests issued before it stay in the           *)
(* transaction and commit, the ids after it are never requested.           *)
(* A request that fails in the engine aborts the transaction, which undoes *)
(* every delete of the call.                                               *)
(* InvalidKey: a value that is not a valid IndexedDB key (null, undefined, *)
(* an object).                                                             *)
InvalidKey == 0

RECURSIVE FirstInvalid(_)
FirstInvalid(ids) ==
    IF ids = << >> THEN 0
    ELSE IF Head(ids) = InvalidKey THEN 1
    ELSE IF FirstInvalid(Tail(ids)) = 0 THEN 0
    ELSE FirstInvalid(Tail(ids)) + 1

Requested(ids) ==
    {ids[j] : j \in {j \in 1..Len(ids) :
                        FirstInvalid(ids) = 0 \/ j < FirstInvalid(ids)}}

(* clearOldGenerations: cursor over index 'createdAt' with                 *)
(* IDBKeyRange.upperBound(cutoffDate), whose bound is included.            *)
CutoffDate(olderThanDays) == now - olderThanDays * DayTicks

(* The range holds Date keys only: a createdAt that is a string sorts      *)
(* after every Date and is never visited.                                  *)
OldGenerations(st, olderThanDays) ==
    {i \in DOMAIN st : IsTime(st[i], "createdAt")
                        /\ st[i].createdAt <= CutoffDate(olderThanDays)}

----------------------------------------------------------------------------
(* Inputs *)

SaveInputs ==
    { [userId |-> "u1", type |-> "image", prompt |-> "p", result |-> "r"],
      [userId |-> "u2", type |-> "code", prompt |-> "p", result |-> "r",
       model |-> "m", tags |-> <<"a">>, favorite |-> TRUE, updatedAt |-> 0,
       syncAttempts |-> 1] }

(* A key that saveGeneration does not generate while the clock is in range *)
ForeignId == GenerationId(MaxClock + 1, 1)

UpdateInputs == { [synced |-> FALSE] }

(* updates: Partial<IndexedDBGeneration>, so any field of a record *)
PartialInputs ==
    { [prompt |-> "q", updatedAt |-> 0], [type |-> "video"], [id |-> ForeignId] }

ImportInputs ==
    { << [id |-> 1, userId |-> "u1", type |-> "image", prompt |-> "p",
          result |-> "r", createdAt |-> 0, updatedAt |-> 0, synced |-> FALSE,
          syncAttempts |-> 1, favorite |-> FALSE, tags |-> << >>] >> }

DeleteManyInputs == { <<1, 2>>, <<InvalidKey, 1>>, <<1, InvalidKey>> }

DaysInputs == { 1 }

(* options of getGenerations; Null stands for a call without options *)
QueryOptions ==
    { Null,
      [type |-> "image"],
      [syncedOnly |-> TRUE],
      [syncedOnly |-> FALSE],
      [favoritesOnly |-> TRUE],
      [limit |-> 1],
      [limit |-> 0],
      [offset |-> 1],
      [limit |-> 1, offset |-> 1],
      [sortOrder |-> "asc"],
      [sortBy |-> "updatedAt"],
      [type |-> "code", favoritesOnly |-> TRUE, sortBy |-> "updatedAt",
       sortOrder |-> "asc"] }

HookInitCall == [op |-> "initialize", from |-> "hook"]

NoRet == [op |-> "none", data |-> Null, status |-> "none", id |-> 0]

----------------------------------------------------------------------------
(* Completion of a call: what the caller observes.  The init effect of     *)
(* useIndexDB sets isReady whether initialize() resolved or threw.         *)

Echo(c) ==
    IF "data" \in DOMAIN c THEN c.data
    ELSE IF "ids" \in DOMAIN c THEN [ids |-> c.ids]
    ELSE IF "days" \in DOMAIN c THEN [days |-> c.days]
    ELSE Null

Return(c, status, id) ==
    /\ ret' = [op |-> c.op, data |-> Echo(c), status |-> status, id |-> id]
    /\ hookInit' = IF c = HookInitCall THEN "ready" ELSE hookInit

(* The init effect is suspended in `await dbManager.initialize()`.         *)
Suspend(c) ==
    /\ waiting' = Append(waiting, c)
    /\ hookInit' = IF c = HookInitCall THEN "awaiting" ELSE hookInit

(* `await this.initialize()` stands before each operation's try block, so  *)
(* the rejection of initPromise reaches the caller of every operation.     *)
InitFailureStatus_GetByIdCatches(c) ==
    IF c.op = "getById" THEN "ok" ELSE "InitFailed"

InitFailureStatus(c) == "InitFailed"

(* initialize(): `if (this.db) return; if (this.initPromise) { await ... }`*)
(* else `this.initPromise = this._initialize()`.                           *)
InitializeStartsOpen_NoSharing == ~db

InitializeStartsOpen == ~db /\ initPromise = "null"

(* A slot is free when no call holds it or the call that held it returned *)
Free(s) == rmw[s] = Idle \/ "result" \in DOMAIN rmw[s]

FreeSlot == CHOOSE s \in Slots : Free(s) /\ \A r \in Slots : r < s => ~Free(r)

(* Calls of operation op that are waiting for the database or are between  *)
(* their read and their write                                              *)
CallOf(w) == IF "call" \in DOMAIN w THEN w.call ELSE w

Pending(op) ==
    Cardinality({s \in Slots : ~Free(s) /\ rmw[s].call.op = op})
    + Cardinality({k \in 1..Len(waiting) : CallOf(waiting[k]).op = op})

(* [...new Set([...existingTags, ...tags])]: the first occurrence of each   *)
(* tag, in order                                                           *)
RECURSIVE Deduplicated(_)
Deduplicated(tags) ==
    IF tags = << >> THEN << >>
    ELSE LET front == Deduplicated(SubSeq(tags, 1, Len(tags) - 1))
             last == tags[Len(tags)]
         IN  IF \E k \in 1..Len(front) : front[k] = last THEN front
             ELSE Append(front, last)

ToggleValue_Keep(favorite) == favorite

(* const newFavoriteStatus = !generation.favorite *)
ToggleValue(favorite) == ~favorite

SavesWaiting == Cardinality({k \in 1..Len(waiting) : waiting[k].op = "save"})

----------------------------------------------------------------------------
(* What a call leaves in the queue when its first stretch has run.         *)
(* markAsSynced has evaluated `lastSyncAttempt: new Date()` and called      *)
(* updateGeneration; markSyncFailed has called getGenerationById.  Both     *)
(* callees begin with `await this.initialize()`, so their transaction is   *)
(* created after the continuations that were queued before.                *)
Continuation(c) ==
    CASE c.op = "markAsSynced" ->
            << [op |-> "update", id |-> c.id,
                updates |-> MarkAsSyncedUpdates(now), call |-> c] >>
      [] c.op = "markSyncFailed" ->
            << [op |-> "markSyncFailedRead", id |-> c.id, call |-> c] >>
      [] OTHER -> << >>

(* The body of each operation, run once initialize() has returned and      *)
(* this.db is set.  Each body is one storage transaction.                  *)

Body(c) ==
    \/ /\ c.op = "initialize"
       /\ Return(c, "ok", 0)
       /\ UNCHANGED <<store, saveCount, rmw>>
    \/ /\ c.op = "save"
       /\ \E suffix \in Suffixes :
             /\ store' = Put(store, SaveRecord(c.data, GenerationId(now, suffix), now))
             /\ Return(c, "ok", GenerationId(now, suffix))
       /\ saveCount' = saveCount + 1
       /\ UNCHANGED rmw
    \/ /\ c.op \in {"markAsSynced", "markSyncFailed"}
       /\ UNCHANGED <<store, saveCount, rmw, ret, hookInit>>
    \/ /\ c.op = "update"
       /\ IF c.id \in DOMAIN store
          THEN /\ store' = UpdatedStore(store, c.id, c.updates, now)
               /\ Return(CallOf(c), "ok", 0)
          ELSE /\ store' = store
               /\ Return(CallOf(c), "NotFound", 0)
       /\ UNCHANGED <<saveCount, rmw>>
    \/ /\ c.op = "getById"
       /\ Return(c, "ok", 0)
       /\ UNCHANGED <<store, saveCount, rmw>>
    \/ /\ c.op = "query"
       /\ \E rows \in QueryOutcomes(store, c.userId, c.options) :
             Return([op |-> "query",
                     data |-> [userId |-> c.userId, options |-> c.options,
                               rows |-> rows]],
                    "ok", 0)
       /\ UNCHANGED <<store, saveCount, rmw>>
    \/ /\ c.op = "getUnsynced"
       /\ Return(c, IF engineBoolKeys THEN "ok" ELSE "DataError", 0)
       /\ UNCHANGED <<store, saveCount, rmw>>
    \/ /\ c.op = "markSyncFailedRead"
       /\ IF GetGenerationById(store, c.id) = Null
          THEN /\ Return(c.call, "ok", 0)
               /\ rmw' = rmw
          ELSE /\ rmw' = [rmw EXCEPT ![FreeSlot] =
                            [call |-> c.call,
                             syncAttempts |-> Field(store[c.id], "syncAttempts", 0)]]
               /\ UNCHANGED <<ret, hookInit>>
       /\ UNCHANGED <<store, saveCount>>
    \/ /\ c.op = "addTags"
       /\ IF GetGenerationById(store, c.id) = Null
          THEN /\ Return(c, "NotFound", 0)
               /\ rmw' = rmw
          ELSE /\ rmw' = [rmw EXCEPT ![FreeSlot] =
                            [call |-> c,
                             tags |-> Field(store[c.id], "tags", << >>)]]
               /\ UNCHANGED <<ret, hookInit>>
       /\ UNCHANGED <<store, saveCount>>
    \/ /\ c.op = "toggleFavorite"
       /\ IF GetGenerationById(store, c.id) = Null
          THEN /\ Return(c, "NotFound", 0)
               /\ rmw' = rmw
          ELSE /\ rmw' = [rmw EXCEPT ![FreeSlot] =
                            [call |-> c,
                             favorite |-> Field(store[c.id], "favorite", FALSE)]]
               /\ UNCHANGED <<ret, hookInit>>
       /\ UNCHANGED <<store, saveCount>>
    \/ /\ c.op = "deleteMany"
       /\ \/ /\ store' = Remove(store, Requested(c.ids))
             /\ Return(c, IF FirstInvalid(c.ids) = 0 THEN "ok" ELSE "DataError",
                       InvalidKey)
          \/ \E k \in 1..Len(c.ids) :
                /\ FirstInvalid(c.ids) = 0
                /\ store' = store
                /\ Return(c, "AbortError", c.ids[k])
       /\ UNCHANGED <<saveCount, rmw>>
    \/ /\ c.op \in {"delete", "clearAll", "clearOld"}
       /\ store' = Remove(store,
                     CASE c.op = "delete" -> {c.id}
                       [] c.op = "clearAll" -> DOMAIN store
                       [] c.op = "clearOld" -> OldGenerations(store, c.days))
       /\ Return(c, "ok",
                 IF c.op = "clearOld"
                 THEN Cardinality(OldGenerations(store, c.days)) ELSE 0)
       /\ UNCHANGED <<saveCount, rmw>>
    \/ /\ c.op = "export"
       /\ \E rows \in QueryOutcomes(store, c.userId, [limit |-> ExportLimit]) :
             Return([op |-> "export",
                     data |-> [userId |-> c.userId,
                               json |-> JsonStringify(rows)]],
                    "ok", 0)
       /\ UNCHANGED <<store, saveCount, rmw>>
    \/ /\ c.op = "import"
       /\ store' = ImportedStore(store, c.records)
       /\ Return(c, "ok", Len(c.records))
       /\ UNCHANGED <<saveCount, rmw>>

(* Bounds on what a caller may start: ids, attempts and slots are finite.  *)
CanStart(c) ==
    /\ c.op = "markSyncFailed" =>
          /\ Pending("markSyncFailed") < MaxInflight
          /\ \A k \in 1..Len(waiting) : waiting[k].op # "markSyncFailed"
          /\ c.id \in DOMAIN store =>
                Field(store[c.id], "syncAttempts", 0) < MaxAttempts
    /\ c.op = "toggleFavorite" => Pending("toggleFavorite") < MaxToggles
    /\ c.op = "addTags" => Pending("addTags") < MaxInflight

(* Continuations of a settled promise run before any new task. *)
NoSettledWaiter == waiting = << >> \/ initPromise = "pending"

(* markAsSynced and markSyncFailed await initialize() themselves and then  *)
(* call a method that awaits it again                                      *)
TwoStepOps == {"markAsSynced", "markSyncFailed"}

(* The queue holds only steps of markAsSynced and markSyncFailed *)
OnlyContinuations ==
    \A k \in 1..Len(waiting) :
        "call" \in DOMAIN waiting[k] \/ waiting[k].op \in TwoStepOps

(* A caller invokes an operation: `await this.initialize()` and then, with *)
(* the database open, the body.                                            *)
Invoke(c) ==
    /\ CanStart(c)
    /\ \/ /\ db
          /\ waiting = << >>
          /\ c.op \notin TwoStepOps
          /\ Body(c)
          /\ waiting' = waiting
          /\ UNCHANGED <<db, initPromise, openCount>>
       \/ /\ db
          /\ waiting # << >> \/ c.op \in TwoStepOps
          /\ Len(waiting) < MaxWaiters
          /\ Suspend(c)
          /\ UNCHANGED <<db, initPromise, openCount, store, saveCount, ret, rmw>>
       \/ /\ InitializeStartsOpen
          /\ Len(waiting) < MaxWaiters
          /\ initPromise' = "pending"
          /\ openCount' = openCount + 1
          /\ Suspend(c)
          /\ UNCHANGED <<db, store, saveCount, ret, rmw>>
       \/ /\ ~db /\ ~InitializeStartsOpen /\ initPromise = "pending"
          /\ Len(waiting) < MaxWaiters
          /\ Suspend(c)
          /\ UNCHANGED <<db, initPromise, openCount, store, saveCount, ret, rmw>>
       \/ /\ ~db /\ ~InitializeStartsOpen /\ initPromise = "rejected"
          /\ Return(c, InitFailureStatus(c), 0)
          /\ UNCHANGED <<db, initPromise, openCount, waiting, store, saveCount, rmw>>
    /\ UNCHANGED <<now, engineBoolKeys, serverVars, subVars, hookVars>>

(* _initialize(): openDB resolves and this.db is set, or it rejects and    *)
(* _initialize throws 'IndexedDB initialization failed'.                   *)
OpenSucceeds ==
    /\ initPromise = "pending"
    /\ db' = TRUE
    /\ initPromise' = "resolved"
    /\ UNCHANGED <<openCount, waiting, store, saveCount, ret, rmw, hookInit>>
    /\ UNCHANGED <<now, engineBoolKeys, serverVars, subVars, hookVars>>

OpenFails ==
    /\ initPromise = "pending"
    /\ ~db
    /\ initPromise' = "rejected"
    /\ UNCHANGED <<db, openCount, waiting, store, saveCount, ret, rmw, hookInit>>
    /\ UNCHANGED <<now, engineBoolKeys, serverVars, subVars, hookVars>>

(* The first continuation in the queue resumes from its await.             *)
Resume ==
    /\ waiting # << >>
    /\ initPromise \in {"resolved", "rejected"}
    /\ Head(waiting).op # "passFetch"
    /\ IF db
       THEN /\ Body(Head(waiting))
            /\ waiting' = Tail(waiting) \o Continuation(Head(waiting))
       ELSE /\ Return(Head(waiting), InitFailureStatus(Head(waiting)), 0)
            /\ waiting' = Tail(waiting)
            /\ UNCHANGED <<store, saveCount, rmw>>
    /\ UNCHANGED <<db, initPromise, openCount>>
    /\ UNCHANGED <<now, engineBoolKeys, serverVars, subVars, hookVars>>

(* markSyncFailed after its read: it evaluates `lastSyncAttempt: new       *)
(* Date()` and calls updateGeneration(id, ...), whose transaction throws    *)
(* when the record is no longer there.                                     *)
MarkSyncFailedWrite(s) ==
    /\ rmw[s] # Idle
    /\ rmw[s].call.op = "markSyncFailed"
    /\ waiting = << >>
    /\ waiting' = << [op |-> "update", id |-> rmw[s].call.id,
                      updates |-> MarkSyncFailedUpdates(rmw[s].syncAttempts, now),
                      call |-> rmw[s].call] >>
    /\ rmw' = [rmw EXCEPT ![s] = Idle]
    /\ UNCHANGED <<db, initPromise, openCount, store, saveCount, ret, hookInit>>
    /\ UNCHANGED <<now, engineBoolKeys, serverVars, subVars, hookVars>>

(* toggleFavorite after its read: updateGeneration(id, { favorite:         *)
(* newFavoriteStatus }) in a new transaction, then return newFavoriteStatus*)
ToggleFavoriteWrite(s) ==
    /\ ~Free(s)
    /\ rmw[s].call.op = "toggleFavorite"
    /\ waiting = << >>
    /\ LET c == rmw[s].call
           newFavoriteStatus == ToggleValue(rmw[s].favorite)
       IN  IF c.id \in DOMAIN store
           THEN /\ store' = UpdatedStore(store, c.id,
                                [favorite |-> newFavoriteStatus], now)
                /\ Return([op |-> "toggleFavorite",
                           data |-> [id |-> c.id, favorite |-> newFavoriteStatus]],
                          "ok", 0)
                /\ rmw' = [rmw EXCEPT ![s] =
                              [call |-> c, favorite |-> rmw[s].favorite,
                               result |-> newFavoriteStatus]]
           ELSE /\ store' = store
                /\ Return(c, "NotFound", 0)
                /\ rmw' = [rmw EXCEPT ![s] = Idle]
    /\ UNCHANGED <<db, initPromise, openCount, waiting, saveCount>>
    /\ UNCHANGED <<now, engineBoolKeys, serverVars, subVars, hookVars>>

(* addTags after its read: updateGeneration(id, { tags: newTags }) *)
AddTagsWrite(s) ==
    /\ ~Free(s)
    /\ rmw[s].call.op = "addTags"
    /\ waiting = << >>
    /\ LET c == rmw[s].call
           newTags == Deduplicated(rmw[s].tags \o c.tags)
       IN  IF c.id \in DOMAIN store
           THEN /\ store' = UpdatedStore(store, c.id, [tags |-> newTags], now)
                /\ Return(c, "ok", 0)
           ELSE /\ store' = store
                /\ Return(c, "NotFound", 0)
    /\ rmw' = [rmw EXCEPT ![s] = Idle]
    /\ UNCHANGED <<db, initPromise, openCount, waiting, saveCount>>
    /\ UNCHANGED <<now, engineBoolKeys, serverVars, subVars, hookVars>>

Tick ==
    /\ now < MaxClock
    /\ now' = now + 1
    /\ UNCHANGED <<managerVars, hookInit, engineBoolKeys, serverVars, subVars, hookVars>>

----------------------------------------------------------------------------
(* useIndexDB and useAutoSync *)

isReady == hookInit = "ready"

(* useIndexDB's init effect: await dbManager.initialize(), then            *)
(* setIsReady(true), also in the catch branch.                             *)
InitEffect ==
    /\ hookInit = "idle"
    /\ NoSettledWaiter
    /\ Invoke(HookInitCall)

(* The mutations the hook hands to the UI.  saveGeneration throws before   *)
(* it reaches the store when no user is signed in.                         *)
(* The parameter type requires a userId; the caller's value is replaced.   *)
HookSaveInputs ==
    { [userId |-> "u2", type |-> "image", prompt |-> "p", result |-> "r"] }

HookSaveData_InputWins(d, u) == d @@ [userId |-> u]

(* { ...data, userId: user.id } *)
HookSaveData(d, u) == [userId |-> u] @@ d

HookSaveGeneration ==
    \E d \in HookSaveInputs :
      /\ NoSettledWaiter
      /\ saveCount + SavesWaiting < MaxSyncRecords
      /\ IF user = "none"
        THEN /\ Return([op |-> "save", data |-> d], "NotAuthenticated", 0)
             /\ UNCHANGED <<db, initPromise, openCount, waiting, store, saveCount,
                            rmw, now, engineBoolKeys, serverVars, subVars, hookVars>>
        ELSE Invoke([op |-> "save", data |-> HookSaveData(d, user)])

HookDeleteGeneration ==
    \E i \in Ids : NoSettledWaiter /\ Invoke([op |-> "delete", id |-> i])

HookClearAll == NoSettledWaiter /\ Invoke([op |-> "clearAll"])

SignIn ==
    /\ user = "none"
    /\ user' = "u1"
    /\ UNCHANGED <<managerVars, hookInit, now, engineBoolKeys, serverVars, subVars, isActive,
                   initialSync, intervalArmed, passes>>

(* The cleanup returned by useAutoSync's effect: isActive = false,         *)
(* clearTimeout(initialSync), clearInterval(intervalId).                   *)
CleanedUp_IntervalLeft ==
    [isActive |-> FALSE, initialSync |-> "none", intervalArmed |-> intervalArmed]

CleanedUp ==
    [isActive |-> FALSE, initialSync |-> "none", intervalArmed |-> FALSE]

Cleanup ==
    /\ isActive' = CleanedUp.isActive
    /\ initialSync' = CleanedUp.initialSync
    /\ intervalArmed' = CleanedUp.intervalArmed

(* The user signs out: useUser() returns null and the component renders    *)
(* again.  The effect in place is cleaned up when React commits that       *)
(* render (EffectCleanup); timers that fire before still find isActive.    *)
SignOut ==
    /\ user # "none"
    /\ user' = "none"
    /\ UNCHANGED <<managerVars, hookInit, now, engineBoolKeys, serverVars, subVars,
                   isActive, initialSync, intervalArmed, passes>>

(* React commits a render in which a dependency of the effect changed, or  *)
(* the component is torn down: the cleanup of the effect in place runs.    *)
EffectCleanup ==
    /\ isActive
    /\ Cleanup
    /\ UNCHANGED <<managerVars, hookInit, now, engineBoolKeys, serverVars, subVars, user, passes>>

(* useAutoSync's effect: `if (!isReady || !user) return`, else arm the     *)
(* 2 s timeout and the interval.                                           *)
EffectRun ==
    /\ isReady
    /\ user # "none"
    /\ ~isActive
    /\ isActive' = TRUE
    /\ initialSync' = "armed"
    /\ intervalArmed' = TRUE
    /\ UNCHANGED <<managerVars, hookInit, now, engineBoolKeys, serverVars, subVars, user, passes>>

(* One execution of syncToServer's mutationFn *)
Ended(outcome) == [pc |-> outcome, list |-> << >>, idx |-> 0]

InFlight(p) ==
    passes[p] # Idle /\ passes[p].pc \in {"fetch", "opening", "push", "mark"}

PassesInFlight == {p \in PassSlots : InFlight(p)}

(* syncToServer() is useMutation's mutate: each call runs mutationFn.      *)
MutateStartsPass == TRUE

NewPassSlot ==
    CHOOSE p \in PassSlots : ~InFlight(p) /\ \A q \in PassSlots : q < p => InFlight(q)

SyncToServer ==
    IF MutateStartsPass
    THEN passes' = [passes EXCEPT ![NewPassSlot] =
                       [pc |-> "fetch", list |-> << >>, idx |-> 0]]
    ELSE passes' = passes

(* setTimeout(() => { if (isActive) syncToServer() }, 2000) *)
InitialSyncFires ==
    /\ initialSync = "armed"
    /\ \E p \in PassSlots : ~InFlight(p)
    /\ initialSync' = "fired"
    /\ IF isActive THEN SyncToServer ELSE passes' = passes
    /\ UNCHANGED <<managerVars, hookInit, now, engineBoolKeys, serverVars, subVars, user, isActive,
                   intervalArmed>>

(* setInterval(() => { if (isActive) syncToServer() }, interval) *)
IntervalFires ==
    /\ intervalArmed
    /\ \E p \in PassSlots : ~InFlight(p)
    /\ IF isActive THEN SyncToServer ELSE passes' = passes
    /\ UNCHANGED <<managerVars, hookInit, now, engineBoolKeys, serverVars, subVars, user, isActive,
                   initialSync, intervalArmed>>

(* useIndexDB returns syncToServer (syncToServer.mutate) to its callers:   *)
(* a component calls it, whatever isReady, user and the timers are.        *)
CallSyncToServer ==
    /\ \E p \in PassSlots : ~InFlight(p)
    /\ SyncToServer
    /\ UNCHANGED <<managerVars, hookInit, now, engineBoolKeys, serverVars, subVars, user, isActive,
                   initialSync, intervalArmed>>

(* What getUnsyncedGenerations gives the pass once initialize() returned   *)
Fetched ==
    IF ~db \/ ~engineBoolKeys THEN Ended("failed")
    ELSE IF GetUnsyncedGenerations(store) = << >> THEN Ended("done")
    ELSE [pc |-> "push", list |-> GetUnsyncedGenerations(store), idx |-> 1]

(* const unsynced = await dbManager.getUnsyncedGenerations(), which begins  *)
(* with `await this.initialize()`: the first caller opens the database,    *)
(* and while the open is pending the pass waits in the queue.              *)
PassFetch(p) ==
    /\ passes[p] # Idle
    /\ passes[p].pc = "fetch"
    /\ NoSettledWaiter
    /\ \/ /\ db \/ initPromise = "rejected"
          /\ passes' = [passes EXCEPT ![p] = Fetched]
          /\ UNCHANGED <<initPromise, openCount, waiting>>
       \/ /\ ~db /\ initPromise \in {"null", "pending"}
          /\ Len(waiting) < MaxWaiters
          /\ initPromise' = "pending"
          /\ openCount' = IF InitializeStartsOpen THEN openCount + 1 ELSE openCount
          /\ waiting' = Append(waiting, [op |-> "passFetch", pass |-> p])
          /\ passes' = [passes EXCEPT ![p] =
                           [pc |-> "opening", list |-> << >>, idx |-> 0]]
    /\ UNCHANGED <<db, store, saveCount, ret, rmw, hookInit, now, engineBoolKeys,
                   serverVars, subVars, user, isActive, initialSync, intervalArmed>>

(* The pass resumes from `await this.initPromise` *)
PassResume ==
    /\ waiting # << >>
    /\ initPromise \in {"resolved", "rejected"}
    /\ Head(waiting).op = "passFetch"
    /\ waiting' = Tail(waiting)
    /\ passes' = [passes EXCEPT ![Head(waiting).pass] = Fetched]
    /\ UNCHANGED <<db, initPromise, openCount, store, saveCount, ret, rmw, hookInit,
                   now, engineBoolKeys, serverVars, subVars, user, isActive,
                   initialSync, intervalArmed>>

(* await axios.post('/api/database/sync', ...) resolves and the pass calls  *)
(* dbManager.markAsSynced(item.id), which evaluates `lastSyncAttempt: new   *)
(* Date()` and calls updateGeneration.                                     *)
PassPushSucceeds(p) ==
    /\ passes[p] # Idle
    /\ passes[p].pc = "push"
    /\ passes' = [passes EXCEPT ![p] =
                     [pc |-> "mark", list |-> @.list, idx |-> @.idx,
                      updates |-> MarkAsSyncedUpdates(now)]]
    /\ UNCHANGED <<managerVars, hookInit, now, engineBoolKeys, serverVars, subVars, user, isActive,
                   initialSync, intervalArmed>>

AfterPushFailure_SkipAhead(pass) ==
    IF pass.idx < Len(pass.list) THEN [pass EXCEPT !.idx = @ + 1]
    ELSE Ended("failed")

(* catch (error) { console.error(...); throw error }: the loop is left     *)
AfterPushFailure(pass) == Ended("failed")

(* The push rejects (network error, timeout, error status): the catch      *)
(* logs and rethrows, which ends the loop and the pass.                    *)
PassPushFails(p) ==
    /\ passes[p] # Idle
    /\ passes[p].pc = "push"
    /\ passes' = [passes EXCEPT ![p] = AfterPushFailure(passes[p])]
    /\ UNCHANGED <<managerVars, hookInit, now, engineBoolKeys, serverVars, subVars, user, isActive,
                   initialSync, intervalArmed>>

(* updateGeneration's transaction for markAsSynced(item.id) ends, then the *)
(* next item                                                               *)
PassMark(p) ==
    /\ passes[p] # Idle
    /\ passes[p].pc = "mark"
    /\ LET id == passes[p].list[passes[p].idx] IN
         IF id \in DOMAIN store
         THEN /\ store' = UpdatedStore(store, id, passes[p].updates, now)
              /\ passes' = [passes EXCEPT ![p] =
                    IF passes[p].idx < Len(passes[p].list)
                    THEN [pc |-> "push", list |-> passes[p].list,
                          idx |-> passes[p].idx + 1]
                    ELSE Ended("done")]
         ELSE /\ store' = store
              /\ passes' = [passes EXCEPT ![p] = Ended("failed")]
    /\ UNCHANGED <<db, initPromise, openCount, waiting, saveCount, ret, rmw,
                   hookInit, now, engineBoolKeys, serverVars, subVars, user, isActive,
                   initialSync, intervalArmed>>

----------------------------------------------------------------------------
(* useSubscription and useSubscriptionUsage (hooks/use-subscription.ts).   *)
(* JavaScript values of more than one type are kept as tagged records.     *)

JsTrue == [type |-> "boolean", truthy |-> TRUE]
JsFalse == [type |-> "boolean", truthy |-> FALSE]
JsFunction == [type |-> "function", truthy |-> TRUE]
JsObject == [type |-> "object", truthy |-> TRUE]
JsUndefined == [type |-> "undefined", truthy |-> FALSE]
Unlimited == [type |-> "string", text |-> "unlimited"]
NaN == [type |-> "number", nan |-> TRUE]
Ratio(n, d) == [type |-> "number", num |-> n, den |-> d]
Num(n) == Ratio(n, 1)
IsNumber(v) == v.type = "number"

KnownFeatures ==
    {"imageGeneration", "videoGeneration", "audioGeneration", "codeGeneration",
     "highResolution", "apiAccess", "prioritySupport", "customModels",
     "batchProcessing"}

(* Properties every object literal inherits from Object.prototype *)
ObjectPrototypeKeys ==
    {"constructor", "hasOwnProperty", "isPrototypeOf", "propertyIsEnumerable",
     "toLocaleString", "toString", "valueOf", "__defineGetter__",
     "__defineSetter__", "__lookupGetter__", "__lookupSetter__", "__proto__"}

(* __proto__ is an accessor that returns Object.prototype; the others are  *)
(* methods.                                                                *)
Inherited(feature) == IF feature = "__proto__" THEN JsObject ELSE JsFunction

FeatureNames == KnownFeatures \cup {"unknownFeature", "constructor", "__proto__"}

FreeLimits ==
    [f \in KnownFeatures |-> f \in {"imageGeneration", "codeGeneration"}]

BasicLimits_ApiAccess ==
    [f \in KnownFeatures |->
        f \in {"imageGeneration", "videoGeneration", "audioGeneration",
               "codeGeneration", "highResolution", "batchProcessing", "apiAccess"}]

BasicLimits ==
    [f \in KnownFeatures |->
        f \in {"imageGeneration", "videoGeneration", "audioGeneration",
               "codeGeneration", "highResolution", "batchProcessing"}]

(* table[feature] || false *)
LookupOrFalse(table, feature) ==
    LET v == IF feature \in DOMAIN table
             THEN (IF table[feature] THEN JsTrue ELSE JsFalse)
             ELSE IF feature \in ObjectPrototypeKeys THEN Inherited(feature)
             ELSE JsUndefined
    IN  IF v.truthy THEN v ELSE JsFalse

HasFeatureAccessValue(sub, feature) ==
    IF sub = Null THEN JsFalse
    ELSE IF sub.plan = "free" THEN LookupOrFalse(FreeLimits, feature)
    ELSE IF sub.plan = "basic" THEN LookupOrFalse(BasicLimits, feature)
    ELSE IF sub.plan = "pro" THEN JsTrue
    ELSE JsFalse

(* const currentPlan = plans?.find(plan => plan.id === subscription?.plan) *)
CurrentPlanLimits ==
    IF plans # Null /\ subscription # Null /\ subscription.plan \in DOMAIN plans
    THEN plans[subscription.plan]
    ELSE Null

LimitOf(feature) ==
    IF feature \in DOMAIN CurrentPlanLimits THEN CurrentPlanLimits[feature]
    ELSE JsUndefined

(* usage[feature] || 0 *)
CurrentUsage(feature) == IF feature \in DOMAIN usage THEN usage[feature] ELSE 0

HasReachedLimitValue_Strict(feature) ==
    IF usage = Null \/ CurrentPlanLimits = Null THEN FALSE
    ELSE LET limit == LimitOf(feature) IN
         /\ limit # Unlimited
         /\ IsNumber(limit)
         /\ CurrentUsage(feature) > limit.num

HasReachedLimitValue(feature) ==
    IF usage = Null \/ CurrentPlanLimits = Null THEN FALSE
    ELSE LET limit == LimitOf(feature) IN
         /\ limit # Unlimited
         /\ IsNumber(limit)
         /\ CurrentUsage(feature) >= limit.num

GetRemainingQuotaValue_Unclamped(feature) ==
    IF usage = Null \/ CurrentPlanLimits = Null THEN Num(0)
    ELSE LET limit == LimitOf(feature) IN
         IF limit = Unlimited THEN Unlimited
         ELSE IF ~IsNumber(limit) THEN NaN
         ELSE Num(limit.num - CurrentUsage(feature))

GetRemainingQuotaValue(feature) ==
    IF usage = Null \/ CurrentPlanLimits = Null THEN Num(0)
    ELSE LET limit == LimitOf(feature) IN
         IF limit = Unlimited THEN Unlimited
         ELSE IF ~IsNumber(limit) THEN NaN
         ELSE IF limit.num - CurrentUsage(feature) > 0
              THEN Num(limit.num - CurrentUsage(feature))
              ELSE Num(0)

(* Math.min(100, (current / limit) * 100): 0 / 0 is NaN, and               *)
(* Math.min(100, NaN) is NaN; n / 0 is Infinity for n > 0.                 *)
Percentage(current, limit) ==
    IF ~IsNumber(limit) THEN NaN
    ELSE IF limit.num = 0 THEN (IF current = 0 THEN NaN ELSE Num(100))
    ELSE IF current * 100 >= 100 * limit.num THEN Num(100)
    ELSE Ratio(current * 100, limit.num)

GetUsagePercentageValue(feature) ==
    IF usage = Null \/ CurrentPlanLimits = Null THEN Num(0)
    ELSE LET limit == LimitOf(feature) IN
         IF limit = Unlimited THEN Num(0)
         ELSE Percentage(CurrentUsage(feature), limit)

(* x >= 80, which is false for NaN *)
AtLeast80(x) == "nan" \notin DOMAIN x /\ x.num >= 80 * x.den

IsApproachingLimitValue(feature) == AtLeast80(GetUsagePercentageValue(feature))

(* Math.ceil(a / b) for b > 0 *)
CeilDiv(a, b) == -((-a) \div b)

HasEndDate == subscription # Null /\ "endDate" \in DOMAIN subscription

DaysRemaining ==
    IF HasEndDate THEN Num(CeilDiv(subscription.endDate - now, DayTicks))
    ELSE Null

IsExpiringSoon_IncludesLastDay ==
    DaysRemaining # Null /\ DaysRemaining.num <= 7 /\ DaysRemaining.num >= 0

IsExpiringSoon ==
    DaysRemaining # Null /\ DaysRemaining.num <= 7 /\ DaysRemaining.num > 0

(* Snapshots the remote endpoints can return *)
SubscriptionInputs ==
    { [plan |-> p, status |-> "active"] :
        p \in {"free", "basic", "pro", "enterprise"} }
    \cup { [plan |-> "free", status |-> "active", endDate |-> e] :
             e \in {0, 1, 7, 8, 9} }

FiniteLimits == {Num(n) : n \in 0..MaxLimit}

PlanCatalogs ==
    { [free |-> [imageGeneration |-> l],
       basic |-> [imageGeneration |-> l, videoGeneration |-> Unlimited],
       pro |-> [imageGeneration |-> Unlimited, videoGeneration |-> Unlimited]] :
      l \in FiniteLimits }

UsageInputs ==
    { [imageGeneration |-> n] : n \in 0..MaxUsage }
    \cup { [videoGeneration |-> n] : n \in 0..MaxUsage }

QuotaFeatures == {"imageGeneration", "videoGeneration", "codeGeneration"}

(* everything the subscription hooks leave alone *)
appVars == <<db, initPromise, openCount, waiting, store, saveCount, rmw,
             hookInit, engineBoolKeys, isActive, initialSync, intervalArmed,
             passes, serverVars>>

(* The queries of the hooks resolve; the two per-user queries are enabled  *)
(* only with a signed-in user.                                             *)
SubscriptionFetched ==
    /\ user # "none"
    /\ subscription' \in SubscriptionInputs
    /\ UNCHANGED <<appVars, ret, now, user, plans, usage>>

PlansFetched ==
    /\ plans' \in PlanCatalogs
    /\ UNCHANGED <<appVars, ret, now, user, subscription, usage>>

UsageFetched ==
    /\ user # "none"
    /\ usage' \in UsageInputs
    /\ UNCHANGED <<appVars, ret, now, user, subscription, plans>>

(* A component calls one of the functions the hooks return *)
Answer(op, feature, value) ==
    [op |-> op, data |-> [feature |-> feature, value |-> value],
     status |-> "ok", id |-> 0]

HasFeatureAccess ==
    /\ \E f \in FeatureNames :
          ret' = Answer("hasFeatureAccess", f,
                        HasFeatureAccessValue(subscription, f))
    /\ UNCHANGED <<appVars, now, user, subVars>>

HasReachedLimit ==
    /\ \E f \in QuotaFeatures :
          ret' = Answer("hasReachedLimit", f,
                        IF HasReachedLimitValue(f) THEN JsTrue ELSE JsFalse)
    /\ UNCHANGED <<appVars, now, user, subVars>>

GetRemainingQuota ==
    /\ \E f \in QuotaFeatures :
          ret' = Answer("getRemainingQuota", f, GetRemainingQuotaValue(f))
    /\ UNCHANGED <<appVars, now, user, subVars>>

GetUsagePercentage ==
    /\ \E f \in QuotaFeatures :
          ret' = Answer("getUsagePercentage", f, GetUsagePercentageValue(f))
    /\ UNCHANGED <<appVars, now, user, subVars>>

IsApproachingLimit ==
    /\ \E f \in QuotaFeatures :
          ret' = Answer("isApproachingLimit", f,
                        IF IsApproachingLimitValue(f) THEN JsTrue ELSE JsFalse)
    /\ UNCHANGED <<appVars, now, user, subVars>>

(* A render of useSubscription computes daysRemaining and isExpiringSoon   *)
Render ==
    /\ ret' = [op |-> "render",
               data |-> [daysRemaining |-> DaysRemaining,
                         isExpiringSoon |-> IsExpiringSoon],
               status |-> "ok", id |-> 0]
    /\ UNCHANGED <<appVars, now, user, subVars>>

----------------------------------------------------------------------------
(* lib/db/index.ts: the server's tables.  A row is kept as                 *)
(* [table, id, userId, createdAt]; id is the primary key of its table.     *)

ServerTypes == {"image", "video"}
(* ids are UUIDs *)
ServerRowIds == {"g1", "g2"}
DbUsers == {"d1", "d2"}

(* users.clerkId -> users.id; "user_9" is a Clerk id without a users row   *)
ClerkUsers == [user_1 |-> "d1", user_2 |-> "d2"]
ClerkIds == {"user_1", "user_2", "user_9"}

(* const RETENTION_DAYS = 30 *)
RetentionDays == 30

(* The rows present at the start were created RetentionDays before it *)
OldRowTime == 0 - RetentionDays * DayTicks

ServerRow(table, id, userId, createdAt) ==
    [table |-> table, id |-> id, userId |-> userId, createdAt |-> createdAt]

(* The rows at the start: the first user's images and one video of each    *)
ServerRows ==
    {ServerRow("image", "g1", "d1", OldRowTime),
     ServerRow("image", "g2", "d1", OldRowTime),
     ServerRow("video", "g1", "d1", OldRowTime),
     ServerRow("video", "g2", "d2", OldRowTime)}

(* resolveUserId: a value that does not start with 'user_' is returned as  *)
(* it is; a Clerk id is looked up, and Null stands for the throw when no   *)
(* user has it.                                                            *)
ResolveUserId(userId) ==
    IF userId \notin ClerkIds THEN [id |-> userId]
    ELSE IF userId \in DOMAIN ClerkUsers THEN [id |-> ClerkUsers[userId]]
    ELSE Null

(* eq(column, value): an SQL expression object, which is truthy in         *)
(* JavaScript                                                              *)
Eq(column, value) == [truthy |-> TRUE, column |-> column, value |-> value]

(* a && b in JavaScript: a when a is falsy, otherwise b *)
JsAnd(a, b) == IF a.truthy THEN b ELSE a

(* a row satisfies the WHERE expression *)
Satisfies(row, cond) == row[cond.column] = cond.value

(* .where(eq(table.id, id) && eq(table.userId, resolvedUserId)) *)
DeleteWhere(id, resolvedUserId) ==
    JsAnd(Eq("id", id), Eq("userId", resolvedUserId))

(* db.delete(table).where(cond).returning() *)
Deleted(T, type, cond) == {r \in T : r.table = type /\ Satisfies(r, cond)}

(* result[0]: the first row the statement returned, or undefined *)
FirstOf(rows) == IF rows = {} THEN {Null} ELSE rows

ServerAnswer(c, status, row) ==
    [op |-> c.op, data |-> [call |-> c, row |-> row], status |-> status, id |-> 0]

ServerFrame ==
    UNCHANGED <<db, initPromise, openCount, waiting, store, saveCount, rmw,
                hookInit, engineBoolKeys, now, subVars, hookVars>>

ServerDeleteInputs ==
    [op : {"serverDelete"}, type : ServerTypes, id : ServerRowIds,
     userId : {"d1", "user_2", "user_9"}]

ServerSaveInputs ==
    [op : {"serverSave"}, type : ServerTypes, userId : {"user_2", "user_9", ""},
     prompt : {"p"}]
    \cup [op : {"serverSave"}, type : {"image"}, userId : {"user_2"}, prompt : {""}]

(* calls of one function that are between their lookup and their statement; *)
(* one call of each function is followed at a time                         *)
ServerPending(op) == Cardinality({f \in serverCalls : f.call.op = op})

(* The call up to `await resolveUserId(userId)`, which throws for a Clerk  *)
(* id that no user has                                                     *)
Lookup(c) ==
    /\ ServerPending(c.op) = 0
    /\ IF ResolveUserId(c.userId) = Null
       THEN /\ ret' = ServerAnswer(c, "UserNotFound", Null)
            /\ serverCalls' = serverCalls
       ELSE /\ serverCalls' = serverCalls \cup
                    {[call |-> c, resolvedUserId |-> ResolveUserId(c.userId).id]}
            /\ ret' = ret
    /\ serverTables' = serverTables

(* deleteGeneration(type, id, userId) is called *)
ServerDeleteGeneration ==
    /\ \E c \in ServerDeleteInputs : Lookup(c)
    /\ ServerFrame

(* ... and its DELETE runs *)
ServerDelete ==
    /\ \E f \in serverCalls :
          /\ f.call.op = "serverDelete"
          /\ LET gone == Deleted(serverTables, f.call.type,
                                 DeleteWhere(f.call.id, f.resolvedUserId))
             IN  /\ serverTables' = serverTables \ gone
                 /\ \E row \in FirstOf(gone) : ret' = ServerAnswer(f.call, "ok", row)
          /\ serverCalls' = serverCalls \ {f}
    /\ ServerFrame

(* saveGeneration(type, data) is called: the checks of its input, then the *)
(* user lookup                                                             *)
ServerSaveGeneration ==
    /\ \E c \in ServerSaveInputs :
          IF c.userId = ""
          THEN /\ ret' = ServerAnswer(c, "UserIdRequired", Null)
               /\ UNCHANGED serverVars
          ELSE IF c.prompt = ""
          THEN /\ ret' = ServerAnswer(c, "PromptRequired", Null)
               /\ UNCHANGED serverVars
          ELSE Lookup(c)
    /\ ServerFrame

(* ... and its INSERT runs: the row gets a fresh id and the time *)
ServerInsert ==
    /\ \E f \in serverCalls :
          /\ f.call.op = "serverSave"
          /\ \E i \in ServerRowIds :
                /\ \A r \in serverTables : r.table = f.call.type => r.id # i
                /\ LET row == ServerRow(f.call.type, i, f.resolvedUserId, now)
                   IN  /\ serverTables' = serverTables \cup {row}
                       /\ ret' = ServerAnswer(f.call, "ok", row)
          /\ serverCalls' = serverCalls \ {f}
    /\ ServerFrame

(* cleanupOldGenerations() is called: cutoffDate is computed, then the     *)
(* SELECT is awaited                                                       *)
CleanupOldGenerations ==
    /\ ServerPending("cleanup") = 0
    /\ serverCalls' = serverCalls \cup
            {[call |-> [op |-> "cleanup"],
              cutoffDate |-> now - RetentionDays * DayTicks]}
    /\ UNCHANGED <<serverTables, ret>>
    /\ ServerFrame

(* ... and its DELETE of image_generations runs *)
CleanupDelete ==
    /\ \E f \in serverCalls :
          /\ f.call.op = "cleanup"
          /\ serverTables' =
                {r \in serverTables :
                    ~(r.table = "image" /\ r.createdAt < f.cutoffDate)}
          /\ ret' = ServerAnswer(f.call, "ok", Null)
          /\ serverCalls' = serverCalls \ {f}
    /\ ServerFrame

----------------------------------------------------------------------------
(* The state after the module is loaded and the manager constructed *)

Init ==
    /\ db = FALSE
    /\ initPromise = "null"
    /\ openCount = 0
    /\ waiting = << >>
    /\ store = EmptyStore
    /\ saveCount = 0
    /\ now = 0
    /\ ret = NoRet
    /\ engineBoolKeys \in BOOLEAN
    /\ rmw = [s \in Slots |-> Idle]
    /\ user = "none"
    /\ hookInit = "idle"
    /\ isActive = FALSE
    /\ initialSync = "none"
    /\ intervalArmed = FALSE
    /\ passes = [p \in PassSlots |-> Idle]
    /\ subscription = Null
    /\ plans = Null
    /\ usage = Null
    /\ serverTables = {}
    /\ serverCalls = {}

(* One action per operation of IndexedDBManager *)
Initialize == NoSettledWaiter /\ Invoke([op |-> "initialize"])

SaveGeneration ==
    \E d \in SaveInputs :
        /\ NoSettledWaiter
        /\ saveCount + SavesWaiting < MaxRecords
        /\ Invoke([op |-> "save", data |-> d])

UpdateGeneration ==
    \E i \in Ids, u \in UpdateInputs :
        NoSettledWaiter /\ Invoke([op |-> "update", id |-> i, updates |-> u])

UpdateGenerationWith ==
    \E i \in Ids, u \in PartialInputs :
        NoSettledWaiter /\ Invoke([op |-> "update", id |-> i, updates |-> u])

ToggleFavorite ==
    \E i \in Ids : NoSettledWaiter /\ Invoke([op |-> "toggleFavorite", id |-> i])

TagInputs == { <<"a", "b">> }

AddTags ==
    \E i \in Ids, t \in TagInputs :
        NoSettledWaiter /\ Invoke([op |-> "addTags", id |-> i, tags |-> t])

GetGenerations ==
    \E u \in Users :
        NoSettledWaiter /\ Invoke([op |-> "query", userId |-> u, options |-> Null])

GetGenerationsWith ==
    \E u \in Users, o \in QueryOptions :
        NoSettledWaiter /\ Invoke([op |-> "query", userId |-> u, options |-> o])

GetById ==
    \E i \in Ids : NoSettledWaiter /\ Invoke([op |-> "getById", id |-> i])

GetUnsynced == NoSettledWaiter /\ Invoke([op |-> "getUnsynced"])

MarkAsSynced ==
    \E i \in Ids : NoSettledWaiter /\ Invoke([op |-> "markAsSynced", id |-> i])

MarkSyncFailed ==
    \E i \in Ids : NoSettledWaiter /\ Invoke([op |-> "markSyncFailed", id |-> i])

DeleteGeneration ==
    \E i \in Ids : NoSettledWaiter /\ Invoke([op |-> "delete", id |-> i])

DeleteGenerations ==
    \E S \in DeleteManyInputs :
        NoSettledWaiter /\ Invoke([op |-> "deleteMany", ids |-> S])

ClearAll == NoSettledWaiter /\ Invoke([op |-> "clearAll"])

ClearOldGenerations ==
    \E n \in DaysInputs : NoSettledWaiter /\ Invoke([op |-> "clearOld", days |-> n])

ImportData ==
    \E l \in ImportInputs : NoSettledWaiter /\ Invoke([op |-> "import", records |-> l])

ExportData ==
    \E u \in Users : NoSettledWaiter /\ Invoke([op |-> "export", userId |-> u])

(* The calls that follow a markAsSynced or markSyncFailed in one task *)
LaterCalls ==
    {[op |-> "delete", id |-> i] : i \in Ids}
    \cup {[op |-> "import", records |-> l] : l \in ImportInputs}
    \cup {[op |-> "clearAll"]}

(* With the database open, the task that called markAsSynced or            *)
(* markSyncFailed makes another call before it ends: the call resumes from *)
(* its `await this.initialize()` behind the step that is queued, and       *)
(* before what that step queues.  A call made while the open was pending   *)
(* is queued in the same order.                                            *)
CallInSameTask ==
    \E c \in LaterCalls : db /\ waiting # << >> /\ OnlyContinuations /\ Invoke(c)

(* The caller restores the export it has just received:                    *)
(* importData(JSON.parse(json)).                                           *)
ImportExported ==
    /\ ret.op = "export"
    /\ ret.status = "ok"
    /\ NoSettledWaiter
    /\ Invoke([op |-> "import", records |-> JsonParse(ret.data.json)])

(* Every operation of the store, by concurrent callers, around an          *)
(* initialization that may succeed or fail.                                *)
Next ==
    \/ Initialize
    \/ SaveGeneration
    \/ UpdateGeneration
    \/ GetGenerations
    \/ GetById
    \/ GetUnsynced
    \/ MarkAsSynced
    \/ MarkSyncFailed
    \/ DeleteGeneration
    \/ DeleteGenerations
    \/ ClearAll
    \/ ClearOldGenerations
    \/ ImportData
    \/ OpenSucceeds
    \/ OpenFails
    \/ Resume
    \/ \E s \in Slots : MarkSyncFailedWrite(s)

Spec == Init /\ [][Next]_vars

(* The operations that stamp records with the time, while time passes *)
ClockNext ==
    \/ SaveGeneration
    \/ UpdateGeneration
    \/ GetById
    \/ MarkAsSynced
    \/ DeleteGeneration
    \/ ClearOldGenerations
    \/ ImportData
    \/ OpenSucceeds
    \/ OpenFails
    \/ Resume
    \/ Tick

ClockSpec == Init /\ [][ClockNext]_vars

(* The application: the hook, its timers and its sync passes *)
SyncNext ==
    \/ InitEffect
    \/ OpenSucceeds
    \/ OpenFails
    \/ Resume
    \/ SignIn
    \/ SignOut
    \/ EffectRun
    \/ EffectCleanup
    \/ InitialSyncFires
    \/ IntervalFires
    \/ CallSyncToServer
    \/ \E p \in PassSlots : PassFetch(p)
    \/ PassResume
    \/ \E p \in PassSlots : PassPushSucceeds(p)
    \/ \E p \in PassSlots : PassPushFails(p)
    \/ \E p \in PassSlots : PassMark(p)
    \/ HookSaveGeneration
    \/ HookDeleteGeneration
    \/ HookClearAll

SyncSpec == Init /\ [][SyncNext]_vars

(* What the runtime guarantees: a settled promise resumes its awaiters,    *)
(* openDB settles, React runs a mounted effect whose dependencies allow    *)
(* it, an armed interval keeps firing, and each await of a pass returns    *)
(* (axios.post settles within its 30 s timeout, one way or the other).     *)
PassPushSettles(p) == PassPushSucceeds(p) \/ PassPushFails(p)

SyncFairness ==
    /\ WF_vars(InitEffect)
    /\ WF_vars(OpenSucceeds \/ OpenFails)
    /\ WF_vars(Resume)
    /\ WF_vars(PassResume)
    /\ WF_vars(EffectRun)
    /\ WF_vars(IntervalFires)
    /\ \A p \in PassSlots :
          /\ WF_vars(PassFetch(p))
          /\ WF_vars(PassPushSettles(p))
          /\ WF_vars(PassMark(p))

SyncLiveSpec == SyncSpec /\ SyncFairness

(* updateGeneration with every kind of partial record, among saves and     *)
(* deletes, while time passes                                              *)
UpdateNext ==
    \/ SaveGeneration
    \/ UpdateGenerationWith
    \/ DeleteGeneration
    \/ OpenSucceeds
    \/ OpenFails
    \/ Resume
    \/ Tick

UpdateSpec == Init /\ [][UpdateNext]_vars

(* toggleFavorite by concurrent callers, among saves and deletes *)
ToggleNext ==
    \/ SaveGeneration
    \/ ToggleFavorite
    \/ \E s \in Slots : ToggleFavoriteWrite(s)
    \/ DeleteGeneration
    \/ OpenSucceeds
    \/ OpenFails
    \/ Resume

ToggleSpec == Init /\ [][ToggleNext]_vars

(* markAsSynced and markSyncFailed among calls of the same task *)
OrderNext ==
    \/ SaveGeneration
    \/ MarkAsSynced
    \/ MarkSyncFailed
    \/ \E s \in Slots : MarkSyncFailedWrite(s)
    \/ CallInSameTask
    \/ OpenSucceeds
    \/ Resume

OrderSpec == Init /\ [][OrderNext]_vars

(* addTags by concurrent callers, among saves and deletes, while time      *)
(* passes                                                                  *)
TagsNext ==
    \/ SaveGeneration
    \/ AddTags
    \/ \E s \in Slots : AddTagsWrite(s)
    \/ DeleteGeneration
    \/ OpenSucceeds
    \/ OpenFails
    \/ Resume
    \/ Tick

TagsSpec == Init /\ [][TagsNext]_vars

(* The coordinator over a backlog: the store is open and holds records the *)
(* signed-in user saved while no pass ran; the coordinator stays active,   *)
(* the timers fire, passes run and the user may delete records.  The       *)
(* record under id i was saved at TimeOf(i).                               *)
BacklogStore ==
    [i \in 1..MaxBacklog |->
        SaveRecord(HookSaveData([userId |-> "u2", type |-> "image",
                                 prompt |-> "p", result |-> "r"], "u1"),
                   i, TimeOf(i))]

BacklogInit ==
    /\ db = TRUE
    /\ initPromise = "resolved"
    /\ openCount = 1
    /\ waiting = << >>
    /\ store = BacklogStore
    /\ saveCount = MaxBacklog
    /\ now = TimeOf(MaxBacklog)
    /\ ret = [op |-> "initialize", data |-> Null, status |-> "ok", id |-> 0]
    /\ engineBoolKeys \in BOOLEAN
    /\ rmw = [s \in Slots |-> Idle]
    /\ user = "u1"
    /\ hookInit = "ready"
    /\ isActive = FALSE
    /\ initialSync = "none"
    /\ intervalArmed = FALSE
    /\ passes = [p \in PassSlots |-> Idle]
    /\ subscription = Null
    /\ plans = Null
    /\ usage = Null
    /\ serverTables = {}
    /\ serverCalls = {}

BacklogIds == 1..MaxBacklog

HookDeleteBacklog ==
    \E i \in BacklogIds : NoSettledWaiter /\ Invoke([op |-> "delete", id |-> i])

BacklogNext ==
    \/ EffectRun
    \/ InitialSyncFires
    \/ IntervalFires
    \/ \E p \in PassSlots : PassFetch(p)
    \/ \E p \in PassSlots : PassPushSucceeds(p)
    \/ \E p \in PassSlots : PassPushFails(p)
    \/ \E p \in PassSlots : PassMark(p)
    \/ HookDeleteBacklog

BacklogSpec == BacklogInit /\ [][BacklogNext]_vars

(* Passes while time passes: the two stamps a pass puts on a record are    *)
(* read at different moments.  The store is open and holds the records the *)
(* signed-in user saved at time 0.                                         *)
PassClockInit ==
    /\ db = TRUE
    /\ initPromise = "resolved"
    /\ openCount = 1
    /\ waiting = << >>
    /\ store = [i \in Ids |-> [id |-> i] @@ BacklogStore[1]]
    /\ saveCount = Cardinality(Ids)
    /\ now = 0
    /\ ret = [op |-> "initialize", data |-> Null, status |-> "ok", id |-> 0]
    /\ engineBoolKeys \in BOOLEAN
    /\ rmw = [s \in Slots |-> Idle]
    /\ user = "u1"
    /\ hookInit = "ready"
    /\ isActive = FALSE
    /\ initialSync = "none"
    /\ intervalArmed = FALSE
    /\ passes = [p \in PassSlots |-> Idle]
    /\ subscription = Null
    /\ plans = Null
    /\ usage = Null
    /\ serverTables = {}
    /\ serverCalls = {}

PassClockNext ==
    \/ CallSyncToServer
    \/ \E p \in PassSlots : PassFetch(p)
    \/ \E p \in PassSlots : PassPushSucceeds(p)
    \/ \E p \in PassSlots : PassPushFails(p)
    \/ \E p \in PassSlots : PassMark(p)
    \/ Tick

PassClockSpec == PassClockInit /\ [][PassClockNext]_vars

(* The server's functions on tables that hold old rows of two users *)
ServerInit ==
    /\ db = FALSE
    /\ initPromise = "null"
    /\ openCount = 0
    /\ waiting = << >>
    /\ store = EmptyStore
    /\ saveCount = 0
    /\ now = 0
    /\ ret = NoRet
    /\ engineBoolKeys = FALSE
    /\ rmw = [s \in Slots |-> Idle]
    /\ user = "none"
    /\ hookInit = "idle"
    /\ isActive = FALSE
    /\ initialSync = "none"
    /\ intervalArmed = FALSE
    /\ passes = [p \in PassSlots |-> Idle]
    /\ subscription = Null
    /\ plans = Null
    /\ usage = Null
    /\ serverTables = ServerRows
    /\ serverCalls = {}

ServerNext ==
    \/ ServerSaveGeneration
    \/ ServerInsert
    \/ ServerDeleteGeneration
    \/ ServerDelete
    \/ CleanupOldGenerations
    \/ CleanupDelete
    \/ Tick

ServerSpec == ServerInit /\ [][ServerNext]_vars

(* getGenerations as a function of the store: the database is open and the *)
(* store holds records that were saved at some time and then left alone,   *)
(* made favorite or marked synced.                                         *)
QueryData ==
    { [userId |-> "u1", type |-> "image", prompt |-> "p", result |-> "r"],
      [userId |-> "u1", type |-> "code", prompt |-> "p", result |-> "r"],
      [userId |-> "u2", type |-> "image", prompt |-> "p", result |-> "r"] }

QueryShapes == QueryData \X {0, MaxClock} \X {"saved", "favorite", "synced"}

QueryRecord(shape, suffix) ==
    LET saved == SaveRecord(shape[1], GenerationId(shape[2], suffix), shape[2])
    IN  CASE shape[3] = "saved" -> saved
          [] shape[3] = "favorite" ->
                UpdateRecord(saved, [favorite |-> TRUE], MaxClock)
          [] shape[3] = "synced" ->
                UpdateRecord(saved, MarkAsSyncedUpdates(MaxClock), MaxClock)

StoreOf(records) == [i \in {r.id : r \in records} |-> CHOOSE r \in records : r.id = i]

QueryStores ==
    UNION { { StoreOf({QueryRecord(f[i], i) : i \in 1..n}) :
                f \in [1..n -> QueryShapes] } :
            n \in {n \in 0..MaxQueryRecords : n <= Cardinality(Suffixes)} }

QueryInit ==
    /\ db = TRUE
    /\ initPromise = "resolved"
    /\ openCount = 1
    /\ waiting = << >>
    /\ store \in QueryStores
    /\ saveCount = Cardinality(DOMAIN store)
    /\ now = MaxClock
    /\ ret = NoRet
    /\ engineBoolKeys \in BOOLEAN
    /\ rmw = [s \in Slots |-> Idle]
    /\ user = "none"
    /\ hookInit = "idle"
    /\ isActive = FALSE
    /\ initialSync = "none"
    /\ intervalArmed = FALSE
    /\ passes = [p \in PassSlots |-> Idle]
    /\ subscription = Null
    /\ plans = Null
    /\ usage = Null
    /\ serverTables = {}
    /\ serverCalls = {}

(* Queries over the store, before and after the caller has exported a      *)
(* user's records and restored them                                        *)
QueryNext ==
    \/ GetGenerationsWith
    \/ ExportData
    \/ ImportExported

QuerySpec == QueryInit /\ [][QueryNext]_vars

(* Export and restore over the same stores *)
RoundTripNext ==
    \/ ExportData
    \/ ImportExported
    \/ ClearAll
    \/ ClearOldGenerations

RoundTripSpec == QueryInit /\ [][RoundTripNext]_vars

(* The subscription hooks: snapshots arrive, time passes, components ask   *)
SubscriptionNext ==
    \/ SignIn
    \/ SubscriptionFetched
    \/ PlansFetched
    \/ UsageFetched
    \/ HasFeatureAccess
    \/ HasReachedLimit
    \/ GetRemainingQuota
    \/ GetUsagePercentage
    \/ IsApproachingLimit
    \/ Render
    \/ Tick

SubscriptionSpec == Init /\ [][SubscriptionNext]_vars

----------------------------------------------------------------------------
(* Properties of the record store, under Spec *)

(* C4: however many callers invoke initialize(), directly or through an    *)
(* operation, and however they interleave, openDB runs exactly once: once  *)
(* any caller has arrived one open has been made and never a second; every *)
(* caller that arrives while it is pending waits on that one               *)
(* initialization; once it succeeded the database stays open and no call   *)
(* opens it again.                                                         *)
C4_SingleOpen ==
    /\ openCount <= 1
    /\ (openCount = 1) <=> (initPromise # "null")
    /\ (waiting # << >> \/ ret # NoRet) => openCount = 1
    /\ (waiting # << >> /\ ~db) => initPromise \in {"pending", "rejected"}
    /\ db <=> (initPromise = "resolved")

(* Two callers are suspended on the one pending initialization. *)
C4_Witness ==
    /\ initPromise = "pending"
    /\ Len(waiting) >= 2
    /\ openCount = 1

(* C5: once the open has failed, every operation of the store ends with    *)
(* the initialization error: none reports success, none is left suspended  *)
(* (a caller still waiting can resume, and resumes with the error), and    *)
(* the store is untouched.                                                 *)
C5_FailsFastAfterInitFailure ==
    initPromise = "rejected" =>
        /\ ~db
        /\ ret # NoRet => ret.status = "InitFailed"
        /\ \A s \in Slots : rmw[s] = Idle
        /\ store = EmptyStore
        /\ waiting # << >> => ENABLED Resume

(* getById was invoked after the failure and ended with the error. *)
C5_Witness ==
    /\ initPromise = "rejected"
    /\ waiting = << >>
    /\ ret.op = "getById"
    /\ ret.status = "InitFailed"

(* C7: a record whose synced flag is true keeps it true in every later     *)
(* state in which the record exists.                                       *)
C7_SyncedNeverReset ==
    [][\A i \in (DOMAIN store) \cap (DOMAIN store') :
          Field(store[i], "synced", FALSE) => Field(store'[i], "synced", FALSE)]_vars

(* C10: with the database open, markSyncFailed never fails: it increments  *)
(* syncAttempts of an existing record and is a no-op for a record that     *)
(* does not exist, also when the record is deleted between its read and    *)
(* its write.                                                              *)
C10_MarkSyncFailedNeverFails ==
    (db /\ ret.op = "markSyncFailed") => ret.status = "ok"

----------------------------------------------------------------------------
(* Properties of the stamped records, under ClockSpec *)

(* A step in which saveGeneration returned a new id *)
SaveCompleted ==
    /\ saveCount' = saveCount + 1
    /\ ret'.op = "save"
    /\ ret'.status = "ok"

(* C6 as claimed: getById on the id save returned yields a record with     *)
(* synced = false, syncAttempts = 0 and every field the caller supplied    *)
(* unchanged, favorite, tags and updatedAt included.                       *)
C6_SaveKeepsEverySuppliedField ==
    [][SaveCompleted =>
         LET r == GetGenerationById(store', ret'.id) IN
           /\ r # Null
           /\ r.synced = FALSE
           /\ r.syncAttempts = 0
           /\ \A f \in DOMAIN ret'.data : r[f] = ret'.data[f]]_vars

(* C6 as amended: getById on the id save returned yields a record with     *)
(* synced = false, syncAttempts = 0, favorite = false, createdAt and       *)
(* updatedAt both the time of the save, and every other field the caller   *)
(* supplied (userId, type, prompt, result, model, tags, ...) unchanged.    *)
StoreSetFields == {"favorite", "updatedAt", "syncAttempts"}

C6_SaveThenGetById ==
    [][SaveCompleted =>
         LET r == GetGenerationById(store', ret'.id) IN
           /\ r # Null
           /\ r.id = ret'.id
           /\ r.synced = FALSE
           /\ r.syncAttempts = 0
           /\ r.favorite = FALSE
           /\ r.createdAt = now
           /\ r.updatedAt = now
           /\ \A f \in (DOMAIN ret'.data) \ StoreSetFields : r[f] = ret'.data[f]]_vars

(* The caller supplied favorite = true, tags and a model; the record is    *)
(* stored with its tags and model and with favorite = false.               *)
C6_Witness ==
    /\ ret.op = "save"
    /\ ret.status = "ok"
    /\ ret.data.userId = "u2"
    /\ ret.data.favorite = TRUE
    /\ ret.id \in DOMAIN store
    /\ store[ret.id].tags = <<"a">>
    /\ store[ret.id].model = "m"
    /\ store[ret.id].favorite = FALSE

(* A step in which markAsSynced returned normally and had an effect *)
MarkAsSyncedCompleted ==
    /\ ret'.op = "markAsSynced"
    /\ ret'.status = "ok"
    /\ ret' # ret \/ store' # store

SecondMarkKeeps(i, mayChange) ==
    /\ i \in DOMAIN store'
    /\ store'[i].synced = TRUE
    /\ DOMAIN store'[i] = DOMAIN store[i]
    /\ \A f \in (DOMAIN store[i]) \ mayChange : store'[i][f] = store[i][f]

(* C9 as claimed: markSynced on a record that is already synced leaves     *)
(* synced = true and changes no field other than lastSyncAttempt.          *)
C9_SecondMarkChangesOnlyLastSyncAttempt ==
    [][MarkAsSyncedCompleted =>
         \A i \in DOMAIN store :
            (Field(store[i], "synced", FALSE) /\ store'[i] # store[i]) =>
                SecondMarkKeeps(i, {"lastSyncAttempt"})]_vars

(* C9 as amended: markSynced on a record that is already synced leaves     *)
(* synced = true and changes no field other than lastSyncAttempt, which    *)
(* becomes the time read when markAsSynced was called, and updatedAt,      *)
(* which becomes the time of the write and is not earlier.                 *)
C9_MarkSyncedIdempotent ==
    [][MarkAsSyncedCompleted =>
         \A i \in DOMAIN store :
            (Field(store[i], "synced", FALSE) /\ store'[i] # store[i]) =>
                /\ SecondMarkKeeps(i, {"lastSyncAttempt", "updatedAt"})
                /\ store'[i].lastSyncAttempt = Head(waiting).updates.lastSyncAttempt
                /\ store'[i].updatedAt = now
                /\ store'[i].lastSyncAttempt <= store'[i].updatedAt]_vars

(* A record was marked synced at an earlier time and markAsSynced can be   *)
(* called on it again now.                                                 *)
C9_Witness ==
    \E i \in DOMAIN store :
        /\ Field(store[i], "synced", FALSE)
        /\ ret.op = "markAsSynced"
        /\ ret.status = "ok"
        /\ store[i].lastSyncAttempt < now
        /\ ENABLED (NoSettledWaiter /\ Invoke([op |-> "markAsSynced", id |-> i]))

----------------------------------------------------------------------------
(* Properties of the sync passes, under SyncSpec *)

(* Pass p's push of list[idx] fails in this step *)
PushFailed(p) ==
    /\ passes[p] # Idle
    /\ passes[p].pc = "push"
    /\ passes'[p].pc = "failed"

(* C1 as claimed: in a pass over the unsynced list r1..rn, pushes go one   *)
(* at a time in list order, and when the push of rk is the first to fail,  *)
(* r1..r(k-1) are synced, rk..rn are still unsynced and the pass attempts  *)
(* no further push.                                                        *)
C1_AbortOnFirstFailure ==
    [][\A p \in PassSlots :
         /\ PushFailed(p) =>
               LET l == passes[p].list
                   k == passes[p].idx
               IN  \A j \in 1..Len(l) :
                      l[j] \in DOMAIN store' => (store'[l[j]].synced <=> j < k)
         /\ (passes[p] # Idle /\ passes[p].pc = "failed") =>
               (passes'[p].pc \in {"failed", "fetch"})
         /\ (passes[p] # Idle /\ passes'[p].pc = "push") =>
               \/ passes'[p] = passes[p]
               \/ passes[p].pc \in {"fetch", "opening"} /\ passes'[p].idx = 1
               \/ /\ passes[p].pc = "mark"
                  /\ passes'[p].idx = passes[p].idx + 1
                  /\ passes'[p].list = passes[p].list]_vars

(* C2 as claimed: at most one sync pass is in flight at any time.          *)
C2_AtMostOnePassInFlight == Cardinality(PassesInFlight) <= 1

(* A pass starts in slot p in this step *)
PassStarted(p) ==
    /\ passes'[p] # Idle
    /\ passes'[p].pc = "fetch"
    /\ passes[p] = Idle \/ passes[p].pc # "fetch"

PassStep(p) ==
    PassFetch(p) \/ PassPushSucceeds(p) \/ PassPushFails(p) \/ PassMark(p)

(* C3: once the coordinator is deactivated neither timer is armed and     *)
(* the coordinator starts no pass (a timer that fires starts one only      *)
(* while isActive); deactivation leaves the passes in flight as they are,  *)
(* each of them can still take its next step, and a markAsSynced it        *)
(* performs while the coordinator is inactive is applied to the store.     *)
(* A pass that waits for the database to open is in the queue of the       *)
(* open's waiters; any other takes its step once the continuations queued  *)
(* before it have run.                                                     *)
C3_DeactivationStopsNewPasses ==
    /\ [](~isActive => (initialSync # "armed" /\ ~intervalArmed))
    /\ [][\A p \in PassSlots :
            (PassStarted(p) /\ (InitialSyncFires \/ IntervalFires)) => isActive]_vars
    /\ [][(isActive /\ ~isActive') => passes' = passes]_vars
    /\ [](\A p \in PassSlots :
            InFlight(p) =>
                IF passes[p].pc = "opening"
                THEN \E k \in 1..Len(waiting) :
                        waiting[k] = [op |-> "passFetch", pass |-> p]
                ELSE (NoSettledWaiter /\ Len(waiting) < MaxWaiters)
                         => ENABLED PassStep(p))
    /\ [][\A p \in PassSlots :
            (/\ ~isActive
             /\ passes[p] # Idle
             /\ passes[p].pc = "mark"
             /\ passes'[p] # passes[p]
             /\ passes[p].list[passes[p].idx] \in DOMAIN store)
            => store'[passes[p].list[passes[p].idx]].synced]_vars

(* The coordinator is inactive with both timers cancelled while a pass is   *)
(* still in flight: its push has succeeded and its markAsSynced on a       *)
(* record that is still unsynced comes next.                               *)
C3_Witness ==
    /\ ~isActive
    /\ initialSync = "none"
    /\ ~intervalArmed
    /\ \E p \in PassSlots :
         /\ InFlight(p)
         /\ passes[p].pc = "mark"
         /\ passes[p].list[passes[p].idx] \in DOMAIN store
         /\ ~store[passes[p].list[passes[p].idx]].synced

(* C8 as claimed: a failed push of a record by a sync pass increments the  *)
(* record's syncAttempts by exactly one.                                   *)
C8_FailedPushCountsAttempt ==
    [][\A p \in PassSlots :
         (PushFailed(p) /\ passes[p].list[passes[p].idx] \in DOMAIN store) =>
            LET id == passes[p].list[passes[p].idx] IN
              /\ id \in DOMAIN store'
              /\ store'[id].syncAttempts = store[id].syncAttempts + 1]_vars

----------------------------------------------------------------------------
(* Bulk delete and purge *)

(* A call of deleteGenerations ends with an error in this step; ret'.id is *)
(* the id whose deletion failed.                                           *)
DeleteManyFailed ==
    /\ ret'.op = "deleteMany"
    /\ ret'.status \in {"DataError", "AbortError"}
    /\ ret' # ret \/ store' # store

(* C11 as claimed: when the deletion of one id of deleteMany(ids) fails,   *)
(* every other id of the list is still removed from the store.             *)
C11_DeleteManyIndependent ==
    [][DeleteManyFailed =>
         \A j \in 1..Len(ret'.data.ids) :
            ret'.data.ids[j] # ret'.id => ret'.data.ids[j] \notin DOMAIN store']_vars

(* A call of clearOldGenerations(days) returns in this step; ret'.id is    *)
(* the count it returns.                                                   *)
ClearOldCompleted ==
    /\ ret'.op = "clearOld"
    /\ ret'.status = "ok"
    /\ ret' # ret \/ store' # store

(* C12 as claimed: deleteOlderThan(days) removes exactly the records whose *)
(* createdAt is strictly before now - days, keeps a record whose createdAt *)
(* equals the cutoff, returns the number of records it removed, and leaves *)
(* no record with createdAt < now - days.                                  *)
C12_ClearOldStrictlyBefore ==
    [][ClearOldCompleted =>
         LET cutoff == CutoffDate(ret'.data.days)
             gone == (DOMAIN store) \ (DOMAIN store')
         IN  /\ gone = {i \in DOMAIN store : store[i].createdAt < cutoff}
             /\ ret'.id = Cardinality(gone)
             /\ \A i \in DOMAIN store' : ~(store'[i].createdAt < cutoff)
             /\ \A i \in DOMAIN store' : store'[i] = store[i]]_vars

----------------------------------------------------------------------------
(* Queries, under QuerySpec *)

(* The user's records that pass the filters of options o *)
Matching(u, o) ==
    {i \in DOMAIN store :
        /\ store[i].userId = u
        /\ "type" \in DOMAIN o => store[i].type = o.type
        /\ "syncedOnly" \in DOMAIN o => store[i].synced = o.syncedOnly
        /\ Field(o, "favoritesOnly", FALSE) => store[i].favorite = TRUE}

(* a comes no later than b in the requested order *)
InOrder(a, b, o) ==
    LET f == Field(o, "sortBy", "createdAt")
    IN  IF Field(o, "sortOrder", "desc") = "desc" THEN a[f] >= b[f]
        ELSE a[f] <= b[f]

(* C13 as claimed: getGenerations(userId, options) returns the slice       *)
(* [offset, offset + limit) of the user's records that pass every filter,  *)
(* in the requested order (createdAt descending by default): each row is a *)
(* stored record of the user that matches, no record is returned twice,    *)
(* the rows are ordered, there are min(limit, matching - offset) of them   *)
(* (limit 100 by default), and the matching records left out split into    *)
(* `offset` records ordered before every row and the rest ordered after.   *)
C13_QueryIsSliceOfFilteredSorted ==
    ret.op = "query" =>
        LET u == ret.data.userId
            o == ret.data.options
            rows == ret.data.rows
            limit == Field(o, "limit", 100)
            offset == Field(o, "offset", 0)
            M == Matching(u, o)
            got == {rows[k].id : k \in 1..Len(rows)}
            avail == IF Cardinality(M) > offset THEN Cardinality(M) - offset ELSE 0
        IN  /\ \A k \in 1..Len(rows) : rows[k].id \in M /\ rows[k] = store[rows[k].id]
            /\ Cardinality(got) = Len(rows)
            /\ Len(rows) = IF limit < avail THEN limit ELSE avail
            /\ \A j, k \in 1..Len(rows) : j < k => InOrder(rows[j], rows[k], o)
            /\ \E before \in SUBSET (M \ got) :
                  /\ Cardinality(before) =
                        (IF offset < Cardinality(M) THEN offset ELSE Cardinality(M))
                  /\ \A b \in before, g \in got : InOrder(store[b], store[g], o)
                  /\ \A a \in (M \ got) \ before, g \in got :
                        InOrder(store[g], store[a], o)

----------------------------------------------------------------------------
(* Export and import, under RoundTripSpec *)

(* C14 as claimed: importing the output of exportData(userId) into an      *)
(* empty store gives a store that holds exactly the user's records, with   *)
(* the same ids and the same field values, and importing the same data     *)
(* once more leaves that store unchanged.                                  *)
C14_ExportImportRoundTrip ==
    [][(ret'.op = "export" /\ ret'.status = "ok") =>
         LET data == JsonParse(ret'.data.json)
             restored == ImportedStore(EmptyStore, data)
         IN  /\ DOMAIN restored =
                   {i \in DOMAIN store : store[i].userId = ret'.data.userId}
             /\ \A i \in DOMAIN restored : restored[i] = store[i]
             /\ ImportedStore(restored, data) = restored]_vars

----------------------------------------------------------------------------
(* The subscription hooks, under SubscriptionSpec *)

(* hasFeatureAccess(feature) returns in this step *)
AccessAnswered ==
    /\ ret'.op = "hasFeatureAccess"
    /\ ret' # ret
    /\ subscription' = subscription

(* C15: over the nine known features hasFeatureAccess returns true or      *)
(* false, and true exactly for the features of the plan's allow-list: free *)
(* grants imageGeneration and codeGeneration; basic grants those and       *)
(* videoGeneration, audioGeneration, highResolution and batchProcessing;   *)
(* pro grants every feature.                                               *)
C15_AccessEqualsAllowList ==
    [][(AccessAnswered /\ subscription # Null
            /\ ret'.data.feature \in KnownFeatures) =>
         LET f == ret'.data.feature
             granted == ret'.data.value = JsTrue
         IN  /\ ret'.data.value \in {JsTrue, JsFalse}
             /\ subscription.plan = "free" =>
                    (granted <=> f \in {"imageGeneration", "codeGeneration"})
             /\ subscription.plan = "basic" =>
                    (granted <=> f \in {"imageGeneration", "codeGeneration",
                                        "videoGeneration", "audioGeneration",
                                        "highResolution", "batchProcessing"})
             /\ subscription.plan = "pro" => granted]_vars

(* hasFeatureAccess('videoGeneration') answered false under the free plan  *)
C15_Witness ==
    /\ ret.op = "hasFeatureAccess"
    /\ ret.data.feature = "videoGeneration"
    /\ ret.data.value = JsFalse
    /\ subscription # Null
    /\ subscription.plan = "free"

(* C16 as claimed: hasFeatureAccess returns false for every plan that is   *)
(* not free, basic or pro, and for every feature name that is not a known  *)
(* feature, under every plan, pro included.                                *)
C16_AccessFailsClosed ==
    [][(AccessAnswered
            /\ \/ subscription = Null
               \/ subscription.plan \notin {"free", "basic", "pro"}
               \/ ret'.data.feature \notin KnownFeatures) =>
         ret'.data.value = JsFalse]_vars

(* A function of useSubscriptionUsage returns in this step *)
QuotaAnswered(op) ==
    /\ ret'.op = op
    /\ ret' # ret
    /\ UNCHANGED subVars

(* The usage data and the limits of the current plan are loaded, and the   *)
(* plan has a limit for feature f                                          *)
LimitKnown(f) ==
    /\ usage # Null
    /\ subscription # Null
    /\ plans # Null
    /\ subscription.plan \in DOMAIN plans
    /\ f \in DOMAIN plans[subscription.plan]

PlanLimit(f) == plans[subscription.plan][f]

(* usage[feature], a feature absent from the usage map counting as 0 *)
UsageOrZero(f) == IF f \in DOMAIN usage THEN usage[f] ELSE 0

(* C17: with the usage and the plan's limit for the feature loaded,        *)
(* hasReachedLimit(feature) is false when the limit is 'unlimited', and    *)
(* for a finite limit it is true exactly when usage[feature] >= limit,     *)
(* a feature absent from the usage map counting as usage 0.                *)
C17_ReachedIffUsageAtLeastLimit ==
    [][(QuotaAnswered("hasReachedLimit") /\ LimitKnown(ret'.data.feature)) =>
         LET f == ret'.data.feature
             limit == PlanLimit(f)
         IN  /\ ret'.data.value \in {JsTrue, JsFalse}
             /\ limit = Unlimited => ret'.data.value = JsFalse
             /\ limit # Unlimited =>
                    (ret'.data.value = JsTrue <=> UsageOrZero(f) >= limit.num)]_vars

(* hasReachedLimit answered true for a feature that the usage map does not *)
(* hold, under a limit of 0                                                *)
C17_Witness ==
    /\ ret.op = "hasReachedLimit"
    /\ ret.data.value = JsTrue
    /\ LimitKnown(ret.data.feature)
    /\ ret.data.feature \notin DOMAIN usage
    /\ PlanLimit(ret.data.feature) = Num(0)

(* C18: with the usage and the plan's limit for the feature loaded,        *)
(* getRemainingQuota(feature) returns 'unlimited' when the limit is        *)
(* 'unlimited', whatever the usage, and max(0, limit - usage) for a finite *)
(* limit, which is never negative.                                         *)
C18_RemainingQuota ==
    [][(QuotaAnswered("getRemainingQuota") /\ LimitKnown(ret'.data.feature)) =>
         LET f == ret'.data.feature
             limit == PlanLimit(f)
             left == limit.num - UsageOrZero(f)
         IN  /\ limit = Unlimited => ret'.data.value = Unlimited
             /\ limit # Unlimited =>
                    /\ ret'.data.value = Num(IF left > 0 THEN left ELSE 0)
                    /\ ret'.data.value.num >= 0]_vars

(* getRemainingQuota answered 0 for a usage above the finite limit         *)
C18_Witness ==
    /\ ret.op = "getRemainingQuota"
    /\ LimitKnown(ret.data.feature)
    /\ PlanLimit(ret.data.feature) # Unlimited
    /\ UsageOrZero(ret.data.feature) > PlanLimit(ret.data.feature).num
    /\ ret.data.value = Num(0)

(* The value of a percentage lies in [0, 100]; NaN does not *)
InRange(x) ==
    /\ "nan" \notin DOMAIN x
    /\ x.num >= 0
    /\ x.num <= 100 * x.den

(* x <= y for two percentages; every comparison with NaN is false *)
AtMost(x, y) ==
    /\ "nan" \notin DOMAIN x
    /\ "nan" \notin DOMAIN y
    /\ x.num * y.den <= y.num * x.den

(* C19 as claimed: for a finite limit getUsagePercentage lies in [0, 100], *)
(* is 100 once usage >= limit, and is no smaller than its value for any    *)
(* smaller usage under the same limit; for an unlimited limit it is 0; and *)
(* isApproachingLimit is true exactly when the percentage is >= 80.        *)
C19_PercentageClampedMonotone ==
    [][(QuotaAnswered("getUsagePercentage") /\ LimitKnown(ret'.data.feature)) =>
         LET f == ret'.data.feature
             limit == PlanLimit(f)
             value == ret'.data.value
         IN  /\ limit = Unlimited => value = Num(0)
             /\ limit # Unlimited =>
                    /\ InRange(value)
                    /\ UsageOrZero(f) >= limit.num => value = Num(100)
                    /\ \A less \in 0..UsageOrZero(f) :
                          AtMost(Percentage(less, limit), value)
             /\ IsApproachingLimitValue(f) <=>
                    /\ limit # Unlimited
                    /\ \/ UsageOrZero(f) >= limit.num
                       \/ UsageOrZero(f) * 100 >= 80 * limit.num]_vars

(* C20: isExpiringSoon is true exactly when daysRemaining is not null and  *)
(* 0 < daysRemaining <= 7, and daysRemaining is null exactly when the      *)
(* subscription has no endDate.                                            *)
C20_ExpiringSoonWithinSevenDays ==
    [][(ret'.op = "render" /\ ret' # ret /\ UNCHANGED <<subVars, now>>) =>
         LET days == ret'.data.daysRemaining
             hasEnd == subscription # Null /\ "endDate" \in DOMAIN subscription
         IN  /\ days = Null <=> ~hasEnd
             /\ ret'.data.isExpiringSoon <=>
                    (days # Null /\ 0 < days.num /\ days.num <= 7)]_vars

(* A render found 7 days remaining and the subscription expiring soon *)
C20_Witness ==
    /\ ret.op = "render"
    /\ ret.data.daysRemaining = Num(7)
    /\ ret.data.isExpiringSoon

----------------------------------------------------------------------------
(* The coordinator and the state of the store, under SyncSpec *)

(* C21 as claimed: a timer of useAutoSync is armed, and a pass starts,     *)
(* only while the database is open and a user is signed in; after a failed *)
(* initialize(), or with no user, no timer is armed and no pass starts.    *)
C21_ActiveOnlyWhenInitializedAndSignedIn ==
    [][/\ (initialSync' = "armed" \/ intervalArmed') => (db' /\ user' # "none")
       /\ \A p \in PassSlots : PassStarted(p) => (db /\ user # "none")]_vars

(* The push of record i by some pass succeeds in this step *)
PushSucceedsFor(i) ==
    \E p \in PassSlots :
        /\ passes[p] # Idle
        /\ passes[p].pc = "push"
        /\ passes[p].list[passes[p].idx] = i
        /\ PassPushSucceeds(p)

(* Every remote failure is transient: a record whose push is attempted     *)
(* again and again is accepted at some attempt.                            *)
TransientFailures == \A i \in Ids : SF_vars(PushSucceedsFor(i))

(* C22 as claimed: when every remote failure is transient, a record that   *)
(* stays in the store while the coordinator stays active eventually has    *)
(* synced = true.                                                          *)
C22_EventualDelivery ==
    TransientFailures =>
        \A i \in Ids :
            <>[](isActive /\ i \in DOMAIN store) =>
                <>(i \in DOMAIN store /\ store[i].synced)

(* C23: a save through the hook with no user signed in ends with the       *)
(* not-authenticated error without reaching the store (no record is        *)
(* created, nothing is queued, the store is unchanged), and that error is  *)
(* given only then; every record saved with a user signed in carries that  *)
(* user's id, whatever userId the input carried.                           *)
C23_SaveNeedsUserAndStampsUserId ==
    [][/\ (HookSaveGeneration /\ user = "none") =>
            /\ ret'.op = "save" /\ ret'.status = "NotAuthenticated"
            /\ store' = store /\ saveCount' = saveCount /\ waiting' = waiting
       /\ (ret'.status = "NotAuthenticated" /\ ret' # ret) =>
            (user = "none" /\ store' = store)
       /\ (HookSaveGeneration /\ user # "none") =>
            /\ \A i \in (DOMAIN store') \ (DOMAIN store) : store'[i].userId = user
            /\ Len(waiting') > Len(waiting) =>
                  waiting'[Len(waiting')].data.userId = user
       /\ \A i \in (DOMAIN store') \ (DOMAIN store) :
            store'[i].userId \in Users \ {d.userId : d \in HookSaveInputs}]_vars

(* A record saved from an input that named another user carries the id of  *)
(* the user who was signed in, and a later save without a user was refused *)
C23_Witness ==
    /\ ret.op = "save"
    /\ ret.status = "NotAuthenticated"
    /\ user = "none"
    /\ \E i \in DOMAIN store : store[i].userId = "u1"

----------------------------------------------------------------------------
(* updateGeneration, under UpdateSpec *)

UpdateCall(i, u) == [op |-> "update", id |-> i, updates |-> u]

(* The body of call c runs in this step: the call is made with the         *)
(* database open, or it resumes from the initialization it waited for.     *)
BodyRan(c) ==
    /\ db
    /\ \/ NoSettledWaiter /\ Invoke(c)
       \/ waiting # << >> /\ Head(waiting) = c /\ Resume

(* C24 as claimed: updateGeneration(id, updates) on an id that is not in   *)
(* the store fails with the not-found error and leaves the store as it is; *)
(* on an existing id the record under id has every given field at its      *)
(* given value, its other fields as before, and updatedAt at the time of   *)
(* the call.                                                               *)
C24_UpdateMergesOrNotFound ==
    [][\A i \in Ids, u \in PartialInputs :
         BodyRan(UpdateCall(i, u)) =>
            IF i \notin DOMAIN store
            THEN ret'.status = "NotFound" /\ store' = store
            ELSE /\ ret'.status = "ok"
                 /\ i \in DOMAIN store'
                 /\ \A f \in (DOMAIN u) \ {"updatedAt"} : store'[i][f] = u[f]
                 /\ \A f \in (DOMAIN store[i]) \ (DOMAIN u \cup {"updatedAt"}) :
                       store'[i][f] = store[i][f]
                 /\ store'[i].updatedAt = now]_vars

(* C29 as claimed: a record keeps its type and its id for as long as it    *)
(* exists, and updateGeneration(id, updates) changes no record other than  *)
(* the one stored under id and leaves the set of stored ids as it is, also *)
(* when updates carries an id or a type.                                   *)
C29_TypeAndIdImmutable ==
    [][/\ \A i \in (DOMAIN store) \cap (DOMAIN store') :
            store'[i].type = store[i].type /\ store'[i].id = store[i].id
       /\ \A i \in Ids, u \in PartialInputs :
            BodyRan(UpdateCall(i, u)) =>
               /\ DOMAIN store' = DOMAIN store
               /\ \A j \in (DOMAIN store) \ {i} : store'[j] = store[j]]_vars

----------------------------------------------------------------------------
(* Missing snapshots, under SubscriptionSpec *)

(* The usage snapshot or the limits of the current plan are not there *)
QuotaDataMissing ==
    \/ usage = Null
    \/ plans = Null
    \/ subscription = Null
    \/ subscription.plan \notin DOMAIN plans

(* C25 as claimed: with the subscription snapshot missing hasFeatureAccess *)
(* returns false; with the usage snapshot or the plan's limits missing     *)
(* hasReachedLimit reports the limit as reached (it does not report the    *)
(* feature as under its limit) and getRemainingQuota returns 0.            *)
C25_ChecksFailClosed ==
    [][/\ (AccessAnswered /\ subscription = Null) => ret'.data.value = JsFalse
       /\ (QuotaAnswered("hasReachedLimit") /\ QuotaDataMissing) =>
             ret'.data.value = JsTrue
       /\ (QuotaAnswered("getRemainingQuota") /\ QuotaDataMissing) =>
             ret'.data.value = Num(0)]_vars

----------------------------------------------------------------------------
(* Repeated pushes, under SyncSpec *)

(* Pass q has had record i accepted by the endpoint and has not yet        *)
(* marked it                                                               *)
PushedUnmarked(q, i) ==
    /\ passes[q] # Idle
    /\ passes[q].pc = "mark"
    /\ passes[q].list[passes[q].idx] = i

(* C26 as claimed: no pass pushes a record whose synced flag is already    *)
(* true, and no record is accepted by the endpoint a second time: when the *)
(* push of a record succeeds, the record is not synced and no other pass   *)
(* holds an accepted push of it.                                           *)
C26_PushedAtMostOnce ==
    [][\A i \in Ids :
         PushSucceedsFor(i) =>
            /\ i \in DOMAIN store => ~store[i].synced
            /\ \A q \in PassSlots : ~PushedUnmarked(q, i)]_vars

----------------------------------------------------------------------------
(* toggleFavorite, under ToggleSpec *)

(* Slot s holds a toggleFavorite call that has read and not yet written *)
ToggleReadDone(s) ==
    /\ rmw'[s] # Idle
    /\ rmw'[s] # rmw[s]
    /\ "result" \notin DOMAIN rmw'[s]
    /\ rmw'[s].call.op = "toggleFavorite"

(* C27: toggleFavorite reads the stored favorite value, and its write, in  *)
(* a later transaction, persists and returns the negation of the value it  *)
(* read; when the stored value is still the one it read (the call ran      *)
(* alone) the stored value is flipped.  Nothing ties the write to the      *)
(* read: C27_Witness is the lost update of two overlapping calls.          *)
C27_ToggleWritesNegationOfItsRead ==
    [][\A s \in Slots :
         /\ ToggleReadDone(s) =>
               rmw'[s].favorite = Field(store[rmw'[s].call.id], "favorite", FALSE)
         /\ (ToggleFavoriteWrite(s) /\ rmw[s].call.id \in DOMAIN store) =>
               LET id == rmw[s].call.id
                   read == rmw[s].favorite
               IN  /\ ret'.op = "toggleFavorite" /\ ret'.status = "ok"
                   /\ ret'.data.favorite = ~read
                   /\ store'[id].favorite = ~read
                   /\ store[id].favorite = read =>
                         store'[id].favorite = ~store[id].favorite
                   /\ \A j \in (DOMAIN store) \ {id} : store'[j] = store[j]]_vars

(* Two toggleFavorite calls on the same record have both returned: both    *)
(* read the same value and returned the same new value, and the stored     *)
(* favorite is that value, flipped once.                                   *)
C27_Witness ==
    \E s, t \in Slots :
        /\ s # t
        /\ rmw[s] # Idle /\ rmw[t] # Idle
        /\ "result" \in DOMAIN rmw[s] /\ "result" \in DOMAIN rmw[t]
        /\ rmw[s].call.id = rmw[t].call.id
        /\ rmw[s].favorite = rmw[t].favorite
        /\ rmw[s].result = rmw[t].result
        /\ rmw[s].call.id \in DOMAIN store
        /\ store[rmw[s].call.id].favorite = ~rmw[s].favorite
        /\ ret.op = "toggleFavorite" /\ ret.status = "ok"
        /\ ret.data.favorite = rmw[s].result

----------------------------------------------------------------------------
(* Starvation behind a record that is never accepted, under BacklogSpec *)

(* Some pass is pushing record j, or has had it accepted *)
Reached(j) ==
    \E p \in PassSlots :
        /\ passes[p] # Idle
        /\ passes[p].pc \in {"push", "mark"}
        /\ passes[p].list[passes[p].idx] = j

(* C28, as the safety properties that give it: a record turns synced only *)
(* when a pass that had it accepted marks it, so a record k whose push     *)
(* fails at every attempt stays unsynced; while such a k is in the store   *)
(* no pass reaches a record that follows k in the unsynced order and every *)
(* such record keeps synced = false; and a pass whose push of k fails has  *)
(* synced the records before k in its list that are still stored.          *)
C28_Starvation ==
    /\ [][\A k \in (DOMAIN store) \cap (DOMAIN store') :
            (~store[k].synced /\ store'[k].synced) =>
                \E p \in PassSlots : PushedUnmarked(p, k) /\ PassMark(p)]_vars
    /\ [](\A k, j \in BacklogIds :
            (k < j /\ k \in DOMAIN store /\ ~store[k].synced) =>
                /\ ~Reached(j)
                /\ j \in DOMAIN store => ~store[j].synced)
    /\ [][\A p \in PassSlots :
            PushFailed(p) =>
                \A n \in 1..(passes[p].idx - 1) :
                    passes[p].list[n] \in DOMAIN store =>
                        store[passes[p].list[n]].synced]_vars

(* Record 1 is synced, record 2 has been refused and a later pass is       *)
(* pushing it again, and record 3 behind it is still unsynced.             *)
C28_Witness ==
    /\ {1, 2, 3} \subseteq DOMAIN store
    /\ store[1].synced
    /\ ~store[2].synced
    /\ ~store[3].synced
    /\ \E p, q \in PassSlots :
          /\ passes[p] # Idle /\ passes[p].pc = "failed"
          /\ passes[q] # Idle /\ passes[q].pc = "push"
          /\ passes[q].list = <<2, 3>>
          /\ passes[q].idx = 1

----------------------------------------------------------------------------
(* The server's deleteGeneration, under ServerSpec *)

(* C30 as claimed: deleteGeneration(type, id, userId) removes at most the  *)
(* one row of the type's table whose id is id and whose owner is the       *)
(* resolved user; no other row of that user and no row of another user is  *)
(* deleted.                                                                *)
C30_ServerDeleteRemovesOnlyTheRow ==
    [][(ret'.op = "serverDelete" /\ (ret' # ret \/ serverTables' # serverTables)) =>
         LET c == ret'.data.call
             gone == serverTables \ serverTables'
         IN  /\ serverTables' \subseteq serverTables
             /\ Cardinality(gone) <= 1
             /\ \A r \in gone :
                   /\ r.table = c.type
                   /\ r.id = c.id
                   /\ ResolveUserId(c.userId) # Null
                   /\ r.userId = ResolveUserId(c.userId).id]_vars

====
